---- MODULE Spec2Model ----
(***************************************************************************)
(* Lexer (Reader) and recursive-descent parser (Parser) of the ion         *)
(* front-end.  Characters are one-character strings, source texts are      *)
(* sequences of characters.  Every Rust function that mutates the Reader   *)
(* or the Parser is an operator from the state before the call to a record *)
(* holding the state after the call and the value returned.                *)
(***************************************************************************)
EXTENDS Integers, Sequences, FiniteSets, TLC

VARIABLES
    reader,              \* Reader: src, itr, current_char, start_*, current_*
    last_sp,             \* Parser.last_sp
    current_token,       \* Parser.current_token (the one-token lookahead)
    just_skept_newline,  \* Parser.just_skept_newline
    ast,                 \* Parser.ast.statements
    pc,                  \* position of the caller in Reader use / in parse()
    frame,               \* locals of the parse_func_decl activation in progress
    result,              \* value returned by the last call
    ghost                \* history: calls made, reader before the last call

vars == <<reader, last_sp, current_token, just_skept_newline, ast, pc, frame,
          result, ghost>>

(***************************************************************************)
(* Characters                                                              *)
(***************************************************************************)
NoChar == "None"
NL == "\n"
BSLASH == "\\"
DQUOTE == "\""
SQUOTE == "'"

Alphabetic ==
    {"a","b","c","d","e","f","g","h","i","j","k","l","m","n","o","p","q","r",
     "s","t","u","v","w","x","y","z",
     "A","B","C","D","E","F","G","H","I","J","K","L","M","N","O","P","Q","R",
     "S","T","U","V","W","X","Y","Z"}
Numeric == {"0","1","2","3","4","5","6","7","8","9"}
NonAscii == {"U+00E9"}

is_alphabetic(c) == c \in Alphabetic
is_numeric(c) == c \in Numeric
DigitVal(c) ==
    CASE c = "0" -> 0 [] c = "1" -> 1 [] c = "2" -> 2 [] c = "3" -> 3
      [] c = "4" -> 4 [] c = "5" -> 5 [] c = "6" -> 6 [] c = "7" -> 7
      [] c = "8" -> 8 [] c = "9" -> 9

(***************************************************************************)
(* Span                                                                    *)
(***************************************************************************)
FileName == "f"

Span(srow, scol, erow, ecol, file) ==
    [srow |-> srow, scol |-> scol, erow |-> erow, ecol |-> ecol, file |-> file]

Span_concat(sp1, sp2) ==
    [scol |-> sp1.scol, srow |-> sp1.srow, ecol |-> sp2.ecol, erow |-> sp2.erow,
     file |-> sp1.file]

nil_span == Span(0, 0, 0, 0, "")

(***************************************************************************)
(* Token                                                                   *)
(***************************************************************************)
EOF == [t |-> "EOF"]
Identifier(s) == [t |-> "Identifier", s |-> s]
KeywordTok(k) == [t |-> "Keyword", k |-> k]
StringLiteral(s) == [t |-> "StringLiteral", s |-> s]
CharLiteral(c) == [t |-> "CharLiteral", c |-> c]
IntegerLiteral(i) == [t |-> "IntegerLiteral", i |-> i]
FloatLiteral(f) == [t |-> "FloatLiteral", f |-> f]
BoolLiteral(b) == [t |-> "BoolLiteral", b |-> b]
SymbolTok(k) == [t |-> "Symbol", k |-> k]

SToken(tok, sp) == [tok |-> tok, sp |-> sp]

(***************************************************************************)
(* Reader                                                                  *)
(***************************************************************************)
\* `let v = value; F(v)`: value is computed once
Let1(value, F(_)) == CHOOSE out \in {F(v) : v \in {value}} : TRUE

LexOk(r, tok) == [kind |-> "Ok", r |-> r, tok |-> tok]
LexErr(r, msg, sp) == [kind |-> "Err", r |-> r, msg |-> msg, span |-> sp]
LexPanic(r) == [kind |-> "Panic", r |-> r]

get_current_span(r) ==
    Span(r.start_row, r.start_col, r.current_row, r.current_col, r.filename)

\* itr is the number of characters the iterator has already yielded
next_char(r) ==
    IF r.itr < Len(r.src)
    THEN [r EXCEPT !.current_char = r.src[r.itr + 1], !.itr = r.itr + 1,
                   !.current_col = r.current_col + 1]
    ELSE [r EXCEPT !.current_char = NoChar, !.current_col = r.current_col + 1]

peek_char(r) == IF r.itr < Len(r.src) THEN r.src[r.itr + 1] ELSE NoChar

Reader_new(input, filename) ==
    next_char([filename |-> filename, src |-> input, itr |-> 0,
               current_char |-> NoChar, current_col |-> 0, current_row |-> 1,
               start_col |-> 0, start_row |-> 1])

RECURSIVE skip_whitespace(_)
\* faulty variant: the end of input is stepped over like a blank
skip_whitespace_past_end(r) ==
    IF r.current_char = NoChar THEN next_char(r)
    ELSE IF r.current_char # " " /\ r.current_char # "\t" /\ r.current_char # "\r"
    THEN r
    ELSE Let1(next_char(r), LAMBDA n : skip_whitespace(n))

skip_whitespace(r) ==
    IF r.current_char = NoChar THEN r
    ELSE IF r.current_char # " " /\ r.current_char # "\t" /\ r.current_char # "\r"
    THEN r
    ELSE Let1(next_char(r), LAMBDA n : skip_whitespace(n))

IsWordChar(c) == is_alphabetic(c) \/ is_numeric(c) \/ c = "_" \/ c \in NonAscii

RECURSIVE read_word_loop(_, _)
read_word_loop(r, word) ==
    IF r.current_char # NoChar /\ IsWordChar(r.current_char)
    THEN Let1(<<next_char(r), Append(word, r.current_char)>>, LAMBDA n :
             read_word_loop(n[1], n[2]))
    ELSE [r |-> r, word |-> word]

read_word(r) ==
    Let1(read_word_loop(r, <<>>), LAMBDA l :
    LET w == l.word IN
        LexOk(l.r,
              CASE w = <<"i","m","p","o","r","t">> -> KeywordTok("Import")
                [] w = <<"p","a","c","k","a","g","e">> -> KeywordTok("Package")
                [] w = <<"f","u","n","c">> -> KeywordTok("Func")
                [] w = <<"v","a","r">> -> KeywordTok("Var")
                [] w = <<"t","r","u","e">> -> BoolLiteral(TRUE)
                [] w = <<"f","a","l","s","e">> -> BoolLiteral(FALSE)
                [] w = <<"i","f">> -> KeywordTok("If")
                [] w = <<"e","l","s","e">> -> KeywordTok("Else")
                [] w = <<"w","h","i","l","e">> -> KeywordTok("While")
                [] w = <<"s","t","r","u","c","t">> -> KeywordTok("Struct")
                [] w = <<"r","e","t","u","r","n">> -> KeywordTok("Return")
                [] w = <<"f","o","r">> -> KeywordTok("For")
                [] w = <<"i","n">> -> KeywordTok("In")
                [] OTHER -> Identifier(w)))

\* str::parse::<i64> on a run of decimal digits: its value
RECURSIVE ParseInt(_, _)
ParseInt(digits, acc) ==
    IF digits = <<>> THEN acc
    ELSE ParseInt(Tail(digits), acc * 10 + DigitVal(Head(digits)))

RECURSIVE StripZeros(_)
StripZeros(digits) ==
    IF digits # <<>> /\ digits[Len(digits)] = "0"
    THEN StripZeros(SubSeq(digits, 1, Len(digits) - 1))
    ELSE digits

RECURSIVE StripLeadingZeros(_)
StripLeadingZeros(digits) ==
    IF Len(digits) > 1 /\ Head(digits) = "0" THEN StripLeadingZeros(Tail(digits))
    ELSE digits

\* i64::MAX = 9223372036854775807, digit by digit
I64_MAX_DIGITS ==
    <<"9","2","2","3","3","7","2","0","3","6","8","5","4","7","7","5","8","0","7">>

\* a <= b for two runs of digits of the same length
RECURSIVE DigitsLeq(_, _)
DigitsLeq(a, b) ==
    IF a = <<>> THEN TRUE
    ELSE IF DigitVal(Head(a)) # DigitVal(Head(b)) THEN DigitVal(Head(a)) < DigitVal(Head(b))
    ELSE DigitsLeq(Tail(a), Tail(b))

\* str::parse::<i64> on a run of decimal digits succeeds: the value is at
\* most i64::MAX
FitsI64(digits) ==
    LET canon == StripLeadingZeros(digits) IN
    \/ Len(canon) < Len(I64_MAX_DIGITS)
    \/ Len(canon) = Len(I64_MAX_DIGITS) /\ DigitsLeq(canon, I64_MAX_DIGITS)

\* the value of a run of decimal digits: an integer up to nine digits, the
\* digits without leading zeros beyond (the value itself is out of the
\* range of the model checker's integers)
DecimalValue(digits) ==
    LET canon == StripLeadingZeros(digits) IN
    IF Len(canon) <= 9 THEN ParseInt(canon, 0) ELSE canon

\* str::parse::<f64> on digits '.' digits: integer part and fraction digits
ParseFloat(number) ==
    LET dot == CHOOSE i \in 1..Len(number) : number[i] = "."
    IN  <<DecimalValue(SubSeq(number, 1, dot - 1)),
          StripZeros(SubSeq(number, dot + 1, Len(number)))>>

RECURSIVE read_number_loop(_, _, _)
read_number_loop(r, float, number) ==
    LET c == r.current_char IN
    IF c = NoChar THEN [kind |-> "Ok", r |-> r, float |-> float, number |-> number]
    ELSE IF is_numeric(c)
    THEN Let1(<<next_char(r), Append(number, c)>>, LAMBDA n :
             read_number_loop(n[1], float, n[2]))
    ELSE IF c = "."
         THEN IF float
              THEN LexErr(r, "unexpected '.'", get_current_span(r))
              ELSE Let1(<<next_char(r), Append(number, c)>>, LAMBDA n :
                       read_number_loop(n[1], TRUE, n[2]))
    ELSE [kind |-> "Ok", r |-> r, float |-> float, number |-> number]

\* faulty variant: a run of digits of any size is an IntegerLiteral
read_number_unchecked(r) ==
    Let1(read_number_loop(r, FALSE, <<>>), LAMBDA l :
        IF l.kind = "Err" THEN l
        ELSE IF l.float THEN LexOk(l.r, FloatLiteral(ParseFloat(l.number)))
        ELSE LexOk(l.r, IntegerLiteral(DecimalValue(l.number))))

read_number(r) ==
    Let1(read_number_loop(r, FALSE, <<>>), LAMBDA l :
        IF l.kind = "Err" THEN l
        ELSE IF l.float THEN LexOk(l.r, FloatLiteral(ParseFloat(l.number)))
        ELSE IF FitsI64(l.number)
        THEN LexOk(l.r, IntegerLiteral(DecimalValue(l.number)))
        ELSE LexErr(l.r, "failed to parse integer", get_current_span(l.r)))

\* faulty variant: `\n` stands for a newline as in a string literal
read_char_newline_escape(r0) ==
    Let1(next_char(r0), LAMBDA r1 :
    IF r1.current_char = NoChar
    THEN LexErr(r1, "failed to parse char", get_current_span(r1))
    ELSE
    LET esc == r1.current_char = BSLASH IN
    Let1(IF esc THEN next_char(r1) ELSE r1, LAMBDA r2 :
    IF esc /\ r2.current_char = NoChar THEN LexPanic(r2)
    ELSE
    Let1(next_char(r2), LAMBDA r3 :
    IF r3.current_char = SQUOTE
    THEN LexOk(next_char(r3),
               CharLiteral(IF esc /\ r2.current_char = "n" THEN NL ELSE r2.current_char))
    ELSE LexErr(r3, "failed to parse char", get_current_span(r3)))))

read_char(r0) ==
    Let1(next_char(r0), LAMBDA r1 :
    IF r1.current_char = NoChar
    THEN LexErr(r1, "failed to parse char", get_current_span(r1))
    ELSE
    LET esc == r1.current_char = BSLASH IN
    Let1(IF esc THEN next_char(r1) ELSE r1, LAMBDA r2 :
    IF esc /\ r2.current_char = NoChar THEN LexPanic(r2)
    ELSE
    Let1(next_char(r2), LAMBDA r3 :
    IF r3.current_char = SQUOTE
    THEN LexOk(next_char(r3), CharLiteral(r2.current_char))
    ELSE LexErr(r3, "failed to parse char", get_current_span(r3)))))

\* faulty variant: an unknown escape passes the character through
string_escape_passthrough(c) == IF c = "n" THEN <<NL>> ELSE <<c>>

\* the character an escape `\c` stands for inside a string literal, if any
string_escape(c) == IF c = "n" THEN <<NL>> ELSE <<>>

RECURSIVE read_string_loop(_, _, _)
read_string_loop(r0, string0, escaped) ==
    Let1(<<next_char(r0), string0>>, LAMBDA n :
    LET r == n[1]
        string == n[2]
        c == r.current_char
    IN  IF c = NoChar
        THEN LexErr(r, "failed to parse string", get_current_span(r))
        ELSE IF c = BSLASH /\ ~escaped
        THEN read_string_loop(r, string, TRUE)
        ELSE IF c = DQUOTE /\ ~escaped
        THEN LexOk(next_char(r), StringLiteral(string))
        ELSE IF escaped
        THEN IF string_escape(c) # <<>>
             THEN read_string_loop(r, string \o string_escape(c), FALSE)
             ELSE LexErr(r, "unknown escape character", get_current_span(r))
        ELSE read_string_loop(
                 IF c = NL
                 THEN [r EXCEPT !.current_col = 0, !.current_row = r.current_row + 1]
                 ELSE r,
                 Append(string, c), FALSE))

read_string(r) == read_string_loop(r, <<>>, FALSE)

\* faulty variant: the second character of a pair is not consumed
TwoCharSymbol_keeps_second(r, second, two, one) ==
    IF peek_char(r) = NoChar THEN LexPanic(r)
    ELSE IF peek_char(r) = second
    THEN LexOk(next_char(r), SymbolTok(two))
    ELSE LexOk(next_char(r), SymbolTok(one))

\* one arm `c => { match self.peek_char().unwrap() { second => two, _ => one } }`
TwoCharSymbol(r, second, two, one) ==
    IF peek_char(r) = NoChar THEN LexPanic(r)
    ELSE IF peek_char(r) = second
    THEN LexOk(next_char(next_char(r)), SymbolTok(two))
    ELSE LexOk(next_char(r), SymbolTok(one))

read_symbol(r) ==
    LET c == r.current_char
        One(k) == LexOk(next_char(r), SymbolTok(k))
        Bad == LexErr(next_char(r), "failed to parse symbol", get_current_span(r))
    IN  CASE c = "(" -> One("LeftParenthesis")
          [] c = ")" -> One("RightParenthesis")
          [] c = "[" -> One("LeftBracket")
          [] c = "]" -> One("RightBracket")
          [] c = "{" -> One("LeftBrace")
          [] c = "}" -> One("RightBrace")
          [] c = "&" -> One("Amp")
          [] c = "@" -> One("At")
          [] c = NL ->
               LexOk(next_char([r EXCEPT !.current_col = 0,
                                         !.current_row = r.current_row + 1]),
                     SymbolTok("NewLine"))
          [] c = "." -> One("Dot")
          [] c = "," -> One("Comma")
          [] c = ":" -> TwoCharSymbol(r, ":", "ColonColon", "Colon")
          [] c = "=" -> TwoCharSymbol(r, "=", "EqualEqual", "Equal")
          [] c = "+" -> TwoCharSymbol(r, "+", "PlusPlus", "Plus")
          [] c = "-" -> TwoCharSymbol(r, ">", "Return", "Minus")
          [] c = "*" -> One("Star")
          [] c = "/" -> One("Over")
          [] c = "%" -> One("Modulo")
          [] c = "!" ->
               IF peek_char(r) = NoChar THEN LexPanic(r)
               ELSE IF peek_char(r) = "="
               THEN LexOk(next_char(next_char(r)), SymbolTok("NotEqual"))
               ELSE Bad
          [] c = "#" -> One("Hash")
          [] c = "<" ->
               IF peek_char(r) = NoChar THEN LexPanic(r)
               ELSE IF peek_char(r) = "="
               THEN LexOk(next_char(next_char(r)), SymbolTok("LessOrEqual"))
               ELSE IF peek_char(r) = ">"
               THEN LexOk(next_char(next_char(r)), SymbolTok("Concat"))
               ELSE One("Less")
          [] c = ">" -> TwoCharSymbol(r, "=", "MoreOrEqual", "More")
          [] OTHER -> Bad

\* Reader::next_token: Ok carries the SToken, Err the message
Reader_next_token(r0) ==
    Let1(skip_whitespace(r0), LAMBDA r1 :
    Let1([r1 EXCEPT !.start_col = r1.current_col, !.start_row = r1.current_row],
         LAMBDA r2 :
    LET c == r2.current_char IN
    Let1(IF c = NoChar THEN LexOk(r2, EOF)
         ELSE IF is_alphabetic(c) \/ c = "_" \/ c \in NonAscii THEN read_word(r2)
         ELSE IF is_numeric(c) \/ (c = "." /\ is_numeric(peek_char(r2)))
         THEN read_number(r2)
         ELSE IF c = SQUOTE THEN read_char(r2)
         ELSE IF c = DQUOTE THEN read_string(r2)
         ELSE read_symbol(r2),
         LAMBDA new_token :
    IF new_token.kind = "Ok"
    THEN [kind |-> "Ok", r |-> new_token.r,
          stok |-> SToken(new_token.tok, get_current_span(new_token.r))]
    ELSE new_token)))

(***************************************************************************)
(* Parser: state threading and the token primitives                        *)
(*                                                                         *)
(* A parser state p holds the Parser fields and its Reader.  A call        *)
(* returns Ok (state after, value), Err (state after, error) or Panic.     *)
(* Option values are sequences of length 0 (None) or 1 (Some).             *)
(***************************************************************************)
None == <<>>
Some(x) == <<x>>

Ok(p, v) == [kind |-> "Ok", p |-> p, val |-> v]
Err(p, kind, span) == [kind |-> "Err", p |-> p, err |-> [kind |-> kind, span |-> span]]
Panic(p) == [kind |-> "Panic", p |-> p]

\* `let r = try!(res); K(r)`: anything but Ok is returned to the caller
Then(res, K(_)) ==
    CHOOSE out \in {IF r.kind # "Ok" THEN r ELSE K(r) : r \in {res}} : TRUE

UnexpectedToken(tok) == [k |-> "UnexpectedToken", tok |-> tok]
ExpectedGotToken(expected, got) ==
    [k |-> "ExpectedGotToken", expected |-> expected, got |-> got]
LexerError(msg) == [k |-> "Lexer", msg |-> msg]

NewLine == SymbolTok("NewLine")

\* faulty variant: a Reader error is taken for the end of the input
next_token_error_as_eof(p) ==
    Let1(Reader_next_token(p.reader), LAMBDA res :
        LET g1 == [p.g EXCEPT !.calls = @ + 1, !.before = p.reader] IN
        IF res.kind = "Panic" THEN Panic([p EXCEPT !.reader = res.r, !.g = g1])
        ELSE LET stok == IF res.kind = "Ok" THEN res.stok ELSE SToken(EOF, res.span) IN
             Ok([p EXCEPT !.reader = res.r,
                          !.last_sp = p.current_token.sp,
                          !.current_token = stok,
                          !.g = [g1 EXCEPT !.tok_sp =
                                    IF p.current_token.tok = NewLine
                                    THEN @ ELSE p.current_token.sp]],
                stok))

\* Parser::next_token; g counts the Reader calls and keeps the span of the
\* last token moved out of the lookahead that was not a NewLine
next_token(p) ==
    Let1(Reader_next_token(p.reader), LAMBDA res :
        LET g1 == [p.g EXCEPT !.calls = @ + 1, !.before = p.reader] IN
        IF res.kind = "Ok"
        THEN Ok([p EXCEPT !.reader = res.r,
                          !.last_sp = p.current_token.sp,
                          !.current_token = res.stok,
                          !.g = [g1 EXCEPT !.tok_sp =
                                    IF p.current_token.tok = NewLine
                                    THEN @ ELSE p.current_token.sp]],
                res.stok)
        ELSE IF res.kind = "Err"
        THEN Err([p EXCEPT !.reader = res.r, !.g = g1], LexerError(res.msg), res.span)
        ELSE Panic([p EXCEPT !.reader = res.r, !.g = g1]))

RECURSIVE skip_newlines_loop(_, _)
skip_newlines_loop(p, sp) ==
    IF p.current_token.tok = NewLine
    THEN Then(next_token(p), LAMBDA n :
             skip_newlines_loop([n.p EXCEPT !.just_skept_newline = TRUE],
                                Span_concat(sp, p.current_token.sp)))
    ELSE Ok(p, sp)

\* faulty variant: the run of NewLines is skipped without a trace in the flag
skip_newlines_keeps_flag(p) ==
    Then(skip_newlines_loop(p,
             Span(p.current_token.sp.srow, p.current_token.sp.scol,
                  p.current_token.sp.srow, p.current_token.sp.scol,
                  p.current_token.sp.file)),
         LAMBDA s : Ok([s.p EXCEPT !.just_skept_newline = p.just_skept_newline], s.val))

skip_newlines(p) ==
    skip_newlines_loop(p,
        Span(p.current_token.sp.srow, p.current_token.sp.scol,
             p.current_token.sp.srow, p.current_token.sp.scol,
             p.current_token.sp.file))

\* faulty variant: a match advances the lookahead without skipping NewLines
advance_no_skip(p, token) ==
    Then(next_token(p), LAMBDA n :
    Ok([n.p EXCEPT !.just_skept_newline = FALSE], Some(token)))

\* after a match: advance the lookahead, clear the flag, skip the NewLines
advance(p, token) ==
    Then(next_token(p), LAMBDA n :
    Then(skip_newlines([n.p EXCEPT !.just_skept_newline = FALSE]), LAMBDA s :
    Ok(s.p, Some(token))))

accept(p, mtoken) ==
    IF p.current_token.tok.t = mtoken.t /\ p.current_token.tok = mtoken
    THEN advance(p, p.current_token)
    ELSE Ok(p, None)

accept_any(p, mtoken) ==
    IF p.current_token.tok.t = mtoken.t
    THEN advance(p, p.current_token)
    ELSE Ok(p, None)

\* faulty variant: a miss of expect is reported at the span of the last token
expect_reports_last_sp(p, token) ==
    Then(accept(p, token), LAMBDA a :
        IF a.val # None THEN Ok(a.p, a.val[1])
        ELSE Err(a.p, ExpectedGotToken(token, a.p.current_token.tok), a.p.last_sp))

expect(p, token) ==
    Then(accept(p, token), LAMBDA a :
        IF a.val # None THEN Ok(a.p, a.val[1])
        ELSE Err(a.p, ExpectedGotToken(token, a.p.current_token.tok),
                 a.p.current_token.sp))

expect_any(p, token) ==
    Then(accept_any(p, token), LAMBDA a :
        IF a.val # None THEN Ok(a.p, a.val[1])
        ELSE Err(a.p, ExpectedGotToken(token, a.p.current_token.tok),
                 a.p.current_token.sp))

\* an `if accept(..) .. else if accept(..) ..` chain: the position in
\* `chain` of the first entry that matched (0 if none) and the token matched
Try(tok) == [any |-> FALSE, tok |-> tok]
TryAny(tok) == [any |-> TRUE, tok |-> tok]

RECURSIVE accept_chain(_, _, _)
accept_chain(p, chain, i) ==
    IF i > Len(chain) THEN Ok(p, [idx |-> 0])
    ELSE Then(IF chain[i].any THEN accept_any(p, chain[i].tok)
              ELSE accept(p, chain[i].tok),
              LAMBDA a :
                  IF a.val # None THEN Ok(a.p, [idx |-> i, stok |-> a.val[1]])
                  ELSE accept_chain(a.p, chain, i + 1))

(***************************************************************************)
(* Parser: paths and types                                                 *)
(***************************************************************************)
AnyIdentifier == Identifier(<<>>)
SpannedString(span, ident) == [span |-> span, ident |-> ident]

RECURSIVE parse_path_loop(_, _)
parse_path_loop(p, parts) ==
    Then(accept(p, SymbolTok("ColonColon")), LAMBDA a :
        IF a.val = None THEN Ok(a.p, parts)
        ELSE Then(expect_any(a.p, AnyIdentifier), LAMBDA n :
                 parse_path_loop(n.p,
                     Append(parts, SpannedString(n.val.sp, n.val.tok.s)))))

parse_path(p, first_part) ==
    Then(IF first_part # None THEN Ok(p, first_part[1])
         ELSE expect_any(p, AnyIdentifier),
         LAMBDA ident_token :
    Then(parse_path_loop(ident_token.p,
             <<SpannedString(ident_token.val.sp, ident_token.val.tok.s)>>),
         LAMBDA l :
    Ok(l.p, [parts |-> l.val,
             span |-> Span_concat(ident_token.val.sp, l.p.last_sp)])))

TypeNone == [ty |-> "None"]
TypeScalar(name) == [ty |-> name]
TypeStruct(path) == [ty |-> "Struct", path |-> path]
TypeWrap(name, inner) == [ty |-> name, inner |-> inner]
TypeMap(key, value) == [ty |-> "Map", key |-> key, value |-> value]

\* faulty variant: the last segment of any path names the scalar type
get_builtin_type_last_segment(path) ==
    LET ident == path.parts[Len(path.parts)].ident IN
    CASE ident = <<"i","n","t">> -> Some(TypeScalar("Int"))
      [] ident = <<"b","o","o","l">> -> Some(TypeScalar("Bool"))
      [] ident = <<"c","h","a","r">> -> Some(TypeScalar("Char"))
      [] ident = <<"s","t","r","i","n","g">> -> Some(TypeScalar("String"))
      [] OTHER -> None

get_builtin_type(path) ==
    IF Len(path.parts) # 1 THEN None
    ELSE LET ident == path.parts[1].ident IN
         CASE ident = <<"i","n","t">> -> Some(TypeScalar("Int"))
           [] ident = <<"b","o","o","l">> -> Some(TypeScalar("Bool"))
           [] ident = <<"c","h","a","r">> -> Some(TypeScalar("Char"))
           [] ident = <<"s","t","r","i","n","g">> -> Some(TypeScalar("String"))
           [] OTHER -> None

TypeChain ==
    <<Try(SymbolTok("Amp")), Try(SymbolTok("At")), Try(SymbolTok("LeftBracket"))>>

RECURSIVE parse_type(_)
parse_type(p) ==
    Then(accept_chain(p, TypeChain, 1), LAMBDA c :
        IF c.val.idx = 1
        THEN Then(parse_type(c.p), LAMBDA t : Ok(t.p, TypeWrap("Reference", t.val)))
        ELSE IF c.val.idx = 2
        THEN Then(parse_type(c.p), LAMBDA t : Ok(t.p, TypeWrap("MutReference", t.val)))
        ELSE IF c.val.idx = 3
        THEN Then(accept(c.p, SymbolTok("RightBracket")), LAMBDA rb :
                 IF rb.val # None
                 THEN Then(parse_type(rb.p), LAMBDA t :
                          Ok(t.p, TypeWrap("Array", t.val)))
                 ELSE Then(parse_type(rb.p), LAMBDA key_type :
                      Then(expect(key_type.p, SymbolTok("RightBracket")), LAMBDA e :
                      Then(parse_type(e.p), LAMBDA value_type :
                      Ok(value_type.p, TypeMap(key_type.val, value_type.val))))))
        ELSE Then(parse_path(c.p, None), LAMBDA path :
                 IF get_builtin_type(path.val) # None
                 THEN Ok(path.p, get_builtin_type(path.val)[1])
                 ELSE Ok(path.p, TypeStruct(path.val))))

(***************************************************************************)
(* Parser: expressions                                                     *)
(***************************************************************************)
U8_MAX == 255

binop_for_token(stoken) ==
    IF stoken.tok.t # "Symbol" THEN None
    ELSE LET s == stoken.tok.k IN
         CASE s = "Plus" -> Some("Addition")
           [] s = "Minus" -> Some("Substraction")
           [] s = "Star" -> Some("Multiplication")
           [] s = "Over" -> Some("Division")
           [] s = "Modulo" -> Some("Modulo")
           [] s = "Concat" -> Some("Concatenation")
           [] s = "EqualEqual" -> Some("Equality")
           [] s = "NotEqual" -> Some("Inequality")
           [] OTHER -> None

OpUnary(unop) == [unary |-> TRUE, op |-> unop]
OpBinary(binop) == [unary |-> FALSE, op |-> binop]

\* faulty variant: every binary operator has the same precedence
precedence_for_op_flat(op) == IF op.unary THEN U8_MAX ELSE 2

precedence_for_op(op) ==
    IF op.unary THEN U8_MAX
    ELSE CASE op.op \in {"Equality", "Inequality"} -> 1
           [] op.op \in {"Addition", "Substraction", "Concatenation"} -> 2
           [] op.op \in {"Multiplication", "Division", "Modulo"} -> 3

EStringLiteral(s, span) == [e |-> "StringLiteral", s |-> s, span |-> span]
EIntegerLiteral(i, span) == [e |-> "IntegerLiteral", i |-> i, span |-> span]
EBoolLiteral(b, span) == [e |-> "BoolLiteral", b |-> b, span |-> span]
ECharLiteral(c, span) == [e |-> "CharLiteral", c |-> c, span |-> span]
EVariable(path, span) == [e |-> "Variable", path |-> path, span |-> span]
EStructInit(path, fields, span) ==
    [e |-> "StructInit", path |-> path, fields |-> fields, span |-> span]
EArray(items, span) == [e |-> "Array", items |-> items, span |-> span]
EMap(map, span) == [e |-> "Map", map |-> map, span |-> span]
EFuncCall(func, args, span) ==
    [e |-> "FuncCall", func |-> func, args |-> args, span |-> span]
EField(obj, name, span) == [e |-> "Field", obj |-> obj, name |-> name, span |-> span]
EIndex(obj, index, span) == [e |-> "Index", obj |-> obj, index |-> index, span |-> span]
EUnaryOp(op, operand, span) ==
    [e |-> "UnaryOp", op |-> op, operand |-> operand, span |-> span]
EBinaryOp(op, lhs, rhs, span) ==
    [e |-> "BinaryOp", op |-> op, lhs |-> lhs, rhs |-> rhs, span |-> span]

\* derived PartialEq/Hash of Expression: the span of every Expression counts,
\* a Path or SpannedString compares by its segment text only.  EqKey(e) is a
\* value equal for two expressions exactly when Rust's == holds.
RECURSIVE EqKey(_)
EqKeySeq(es) == [i \in 1..Len(es) |-> EqKey(es[i])]
EqKeyPath(path) == [i \in 1..Len(path.parts) |-> path.parts[i].ident]
EqKey(x) ==
    CASE x.e = "StringLiteral" -> <<"StringLiteral", x.s, x.span>>
      [] x.e = "IntegerLiteral" -> <<"IntegerLiteral", x.i, x.span>>
      [] x.e = "BoolLiteral" -> <<"BoolLiteral", x.b, x.span>>
      [] x.e = "CharLiteral" -> <<"CharLiteral", x.c, x.span>>
      [] x.e = "Variable" -> <<"Variable", EqKeyPath(x.path), x.span>>
      [] x.e = "StructInit" ->
            <<"StructInit", EqKeyPath(x.path),
              [i \in 1..Len(x.fields) |->
                  <<x.fields[i].span, x.fields[i].name.ident,
                    EqKey(x.fields[i].value)>>], x.span>>
      [] x.e = "Array" -> <<"Array", EqKeySeq(x.items), x.span>>
      [] x.e = "Map" ->
            <<"Map", [i \in 1..Len(x.map) |->
                         <<EqKey(x.map[i].key), EqKey(x.map[i].value)>>], x.span>>
      [] x.e = "FuncCall" -> <<"FuncCall", EqKey(x.func), EqKeySeq(x.args), x.span>>
      [] x.e = "Field" -> <<"Field", EqKey(x.obj), x.name.ident, x.span>>
      [] x.e = "Index" -> <<"Index", EqKey(x.obj), EqKeySeq(x.index), x.span>>
      [] x.e = "UnaryOp" -> <<"UnaryOp", x.op, EqKey(x.operand), x.span>>
      [] x.e = "BinaryOp" -> <<"BinaryOp", x.op, EqKey(x.lhs), EqKey(x.rhs), x.span>>

\* Expression == Expression
ExprEq(x, y) == x.e = y.e /\ EqKey(x) = EqKey(y)

\* HashMap::insert: an equal key keeps its entry and takes the new value
map_insert(map, key, value) ==
    IF \E i \in 1..Len(map) : ExprEq(map[i].key, key)
    THEN [i \in 1..Len(map) |->
             IF ExprEq(map[i].key, key)
             THEN [key |-> map[i].key, value |-> value] ELSE map[i]]
    ELSE Append(map, [key |-> key, value |-> value])

\* `if lookahead == close { accept(Comma) } else { expect(Comma) }`
\* faulty variant: the comma between two elements is optional too
comma_rule_lenient(p, close) == accept(p, SymbolTok("Comma"))

comma_rule(p, close) ==
    IF p.current_token.tok = SymbolTok(close)
    THEN accept(p, SymbolTok("Comma"))
    ELSE expect(p, SymbolTok("Comma"))

ContinuationChain ==
    <<Try(SymbolTok("Plus")), Try(SymbolTok("Minus")), Try(SymbolTok("Star")),
      Try(SymbolTok("Over")), Try(SymbolTok("Modulo")), Try(SymbolTok("EqualEqual")),
      Try(SymbolTok("NotEqual")), Try(SymbolTok("Concat")),
      Try(SymbolTok("LeftParenthesis")), Try(SymbolTok("Dot")),
      Try(SymbolTok("LeftBracket"))>>
ContinuationOps ==
    <<"Addition", "Substraction", "Multiplication", "Division", "Modulo",
      "Equality", "Inequality", "Concatenation">>

\* Keyword::New is no keyword of the lexer; accept_any ignores the payload
PrimaryChain ==
    <<Try(SymbolTok("LeftParenthesis")), Try(SymbolTok("Hash")), Try(SymbolTok("Amp")),
      Try(SymbolTok("At")), Try(SymbolTok("Star")), Try(SymbolTok("LeftBracket")),
      Try(SymbolTok("LeftBrace")), TryAny(StringLiteral(<<>>)),
      TryAny(IntegerLiteral(0)), TryAny(BoolLiteral(FALSE)), TryAny(CharLiteral("0")),
      TryAny(AnyIdentifier), TryAny(KeywordTok("New"))>>
PrimaryUnaryOps == <<"", "Count", "Reference", "MutReference", "Dereference">>

parse_expression_literal(p, stoken) ==
    LET tok == stoken.tok IN
    Ok(p, CASE tok.t = "StringLiteral" -> EStringLiteral(tok.s, stoken.sp)
            [] tok.t = "IntegerLiteral" -> EIntegerLiteral(tok.i, stoken.sp)
            [] tok.t = "BoolLiteral" -> EBoolLiteral(tok.b, stoken.sp)
            [] tok.t = "CharLiteral" -> ECharLiteral(tok.c, stoken.sp))

parse_expression_variable(p, stoken) ==
    Then(parse_path(p, Some(stoken)), LAMBDA path :
    Ok(path.p, EVariable(path.val, path.val.span)))

parse_expression_field(p, start_sp, struct_expr) ==
    Then(expect_any(p, AnyIdentifier), LAMBDA f :
    Ok(f.p, EField(struct_expr, SpannedString(f.val.sp, f.val.tok.s),
                   Span_concat(start_sp, f.val.sp))))

\* faulty variant: `.` after an expression does not continue it
continuation_without_dot(p, minimum_precedence) ==
    IF p.just_skept_newline THEN None
    ELSE IF binop_for_token(p.current_token) # None
    THEN LET prec == precedence_for_op(OpBinary(binop_for_token(p.current_token)[1]))
         IN  IF prec > minimum_precedence THEN Some(prec) ELSE None
    ELSE IF \/ p.current_token.tok = SymbolTok("LeftParenthesis")
            \/ p.current_token.tok = SymbolTok("LeftBracket")
    THEN Some(0)
    ELSE None

\* the tail of parse_expression_: None to return new_expr, Some(m) to go on
\* with parse_expression_(Some(new_expr), m)
continuation(p, minimum_precedence) ==
    IF p.just_skept_newline THEN None
    ELSE IF binop_for_token(p.current_token) # None
    THEN LET prec == precedence_for_op(OpBinary(binop_for_token(p.current_token)[1]))
         IN  IF prec > minimum_precedence THEN Some(prec) ELSE None
    ELSE IF \/ p.current_token.tok = SymbolTok("LeftParenthesis")
            \/ p.current_token.tok = SymbolTok("LeftBracket")
            \/ p.current_token.tok = SymbolTok("Dot")
    THEN Some(0)
    ELSE None

RECURSIVE parse_expression_(_, _, _)
RECURSIVE parse_expression_binop(_, _, _, _)
RECURSIVE parse_expression_unop(_, _, _)
RECURSIVE expression_list(_, _, _)
RECURSIVE parse_expression_map_loop(_, _)
RECURSIVE parse_expression_struct_init_loop(_, _)
RECURSIVE parse_expression_index(_, _, _)

parse_expression(p) == parse_expression_(p, None, 0)

parse_expression_binop(p, start_sp, binop, lhs) ==
    Then(parse_expression_(p, None, precedence_for_op(OpBinary(binop))), LAMBDA rhs :
    Ok(rhs.p, EBinaryOp(binop, lhs, rhs.val, Span_concat(start_sp, rhs.p.last_sp))))

parse_expression_unop(p, start_sp, unop) ==
    Then(parse_expression_(p, None, precedence_for_op(OpUnary(unop))), LAMBDA operand :
    Ok(operand.p,
       EUnaryOp(unop, operand.val, Span_concat(start_sp, operand.p.last_sp))))

\* `while accept(close).is_none() { items.push(parse_expression()); comma }`
expression_list(p, close, items) ==
    Then(accept(p, SymbolTok(close)), LAMBDA a :
        IF a.val # None THEN Ok(a.p, items)
        ELSE Then(parse_expression(a.p), LAMBDA e :
             Then(comma_rule(e.p, close), LAMBDA c :
             expression_list(c.p, close, Append(items, e.val)))))

parse_expression_array(p, start_sp) ==
    Then(expression_list(p, "RightBracket", <<>>), LAMBDA l :
    Ok(l.p, EArray(l.val, Span_concat(start_sp, l.p.last_sp))))

parse_expression_func_call(p, start_sp, func_expr) ==
    Then(expression_list(p, "RightParenthesis", <<>>), LAMBDA l :
    Ok(l.p, EFuncCall(func_expr, l.val, Span_concat(start_sp, l.p.last_sp))))

parse_expression_map_loop(p, items) ==
    Then(accept(p, SymbolTok("RightBrace")), LAMBDA a :
        IF a.val # None THEN Ok(a.p, items)
        ELSE Then(parse_expression(a.p), LAMBDA key :
             Then(expect(key.p, SymbolTok("Colon")), LAMBDA col :
             Then(parse_expression(col.p), LAMBDA value :
             Then(comma_rule(value.p, "RightBrace"), LAMBDA c :
             Let1(map_insert(items, key.val, value.val), LAMBDA map :
             parse_expression_map_loop(c.p, map)))))))

parse_expression_map(p, start_sp) ==
    Then(parse_expression_map_loop(p, <<>>), LAMBDA l :
    Ok(l.p, EMap(l.val, Span_concat(start_sp, l.p.last_sp))))

parse_expression_struct_init_loop(p, fields) ==
    Then(accept(p, SymbolTok("RightBrace")), LAMBDA a :
        IF a.val # None THEN Ok(a.p, fields)
        ELSE Then(expect_any(a.p, AnyIdentifier), LAMBDA n :
             Then(expect(n.p, SymbolTok("Colon")), LAMBDA col :
             Then(parse_expression(col.p), LAMBDA value :
             Then(comma_rule(value.p, "RightBrace"), LAMBDA c :
             parse_expression_struct_init_loop(c.p,
                 Append(fields,
                     [span |-> Span_concat(n.val.sp, value.p.last_sp),
                      name |-> SpannedString(n.val.sp, n.val.tok.s),
                      value |-> value.val])))))))

parse_expression_struct_init(p, start_sp) ==
    Then(parse_path(p, None), LAMBDA path :
    Then(expect(path.p, SymbolTok("LeftBrace")), LAMBDA lb :
    Then(parse_expression_struct_init_loop(lb.p, <<>>), LAMBDA l :
    Ok(l.p, EStructInit(path.val, l.val, Span_concat(start_sp, l.p.last_sp))))))

parse_expression_index(p, start_sp, indexable_expr) ==
    Then(accept(p, SymbolTok("RightBracket")), LAMBDA rb :
        IF rb.val # None
        THEN Ok(rb.p, EIndex(indexable_expr, None, Span_concat(start_sp, rb.p.last_sp)))
        ELSE Then(parse_expression(rb.p), LAMBDA e :
             Then(expect(e.p, SymbolTok("RightBracket")), LAMBDA x :
             Ok(x.p, EIndex(indexable_expr, Some(e.val),
                            Span_concat(start_sp, x.p.last_sp))))))

\* the `match prev_expr` of parse_expression_; kind "Return" marks the early
\* `return Ok(expr)` of the Some(expr) arm
new_expression(p, prev_expr) ==
    IF prev_expr # None
    THEN LET expr == prev_expr[1] IN
         Then(accept_chain(p, ContinuationChain, 1), LAMBDA c :
             IF c.val.idx = 0
             THEN [kind |-> "Return", p |-> c.p, val |-> expr]
             ELSE IF c.val.idx <= 8
             THEN parse_expression_binop(c.p, expr.span,
                                         ContinuationOps[c.val.idx], expr)
             ELSE IF c.val.idx = 9
             THEN parse_expression_func_call(c.p, expr.span, expr)
             ELSE IF c.val.idx = 10
             THEN parse_expression_field(c.p, expr.span, expr)
             ELSE parse_expression_index(c.p, expr.span, expr))
    ELSE Then(accept_chain(p, PrimaryChain, 1), LAMBDA c :
             IF c.val.idx = 0
             THEN Err(c.p, UnexpectedToken(c.p.current_token.tok),
                      c.p.current_token.sp)
             ELSE IF c.val.idx = 1
             THEN Then(parse_expression(c.p), LAMBDA e :
                  Then(expect(e.p, SymbolTok("RightParenthesis")), LAMBDA x :
                  Ok(x.p, e.val)))
             ELSE IF c.val.idx <= 5
             THEN parse_expression_unop(c.p, c.val.stok.sp, PrimaryUnaryOps[c.val.idx])
             ELSE IF c.val.idx = 6 THEN parse_expression_array(c.p, c.val.stok.sp)
             ELSE IF c.val.idx = 7 THEN parse_expression_map(c.p, c.val.stok.sp)
             ELSE IF c.val.idx <= 11 THEN parse_expression_literal(c.p, c.val.stok)
             ELSE IF c.val.idx = 12 THEN parse_expression_variable(c.p, c.val.stok)
             ELSE parse_expression_struct_init(c.p, c.val.stok.sp))

parse_expression_(p, prev_expr, minimum_precedence) ==
    Let1(new_expression(p, prev_expr), LAMBDA new_expr :
        IF new_expr.kind = "Return" THEN Ok(new_expr.p, new_expr.val)
        ELSE IF new_expr.kind # "Ok" THEN new_expr
        ELSE Let1(continuation(new_expr.p, minimum_precedence), LAMBDA k :
                 IF k = None THEN new_expr
                 ELSE parse_expression_(new_expr.p, Some(new_expr.val), k[1])))

(***************************************************************************)
(* Parser: block statements                                                *)
(***************************************************************************)
RECURSIVE parse_block_statement(_, _)
RECURSIVE block_body(_, _, _)
RECURSIVE parse_if(_, _, _)

\* `while accept(RightBrace).is_none() { statements.push(parse_block_statement) }`
block_body(p, return_type, statements) ==
    Then(accept(p, SymbolTok("RightBrace")), LAMBDA a :
        IF a.val # None THEN Ok(a.p, statements)
        ELSE Then(parse_block_statement(a.p, return_type), LAMBDA st :
             block_body(st.p, return_type, Append(statements, st.val))))

parse_var_decl(p, start_sp) ==
    Then(expect_any(p, AnyIdentifier), LAMBDA name_token :
    Then(expect(name_token.p, SymbolTok("Colon")), LAMBDA col :
    Then(parse_type(col.p), LAMBDA var_type :
    Then(accept(var_type.p, SymbolTok("Equal")), LAMBDA eq :
    Then(IF eq.val # None
         THEN Then(parse_expression(eq.p), LAMBDA e : Ok(e.p, Some(e.val)))
         ELSE Ok(eq.p, None),
         LAMBDA value :
    Ok(value.p,
       [b |-> "VarDecl",
        span |-> Span_concat(start_sp, value.p.last_sp),
        name |-> name_token.val.tok.s,
        var_type |-> var_type.val,
        value |-> value.val]))))))

parse_forin(p, return_type, start_sp) ==
    Then(expect_any(p, AnyIdentifier), LAMBDA element_token :
    Then(expect(element_token.p, KeywordTok("In")), LAMBDA in :
    Then(parse_expression(in.p), LAMBDA collection :
    Then(expect(collection.p, SymbolTok("LeftBrace")), LAMBDA lb :
    Then(block_body(lb.p, return_type, <<>>), LAMBDA body :
    Ok(body.p,
       [b |-> "ForIn",
        span |-> Span_concat(start_sp, body.p.last_sp),
        element_name |-> element_token.val.tok.s,
        collection |-> collection.val,
        statements |-> body.val]))))))

\* faulty variant: a value is parsed whatever the return type is
parse_return_always_value(p, return_type, start_sp) ==
    Then(parse_expression(p), LAMBDA e :
    Ok(e.p,
       [b |-> "Return",
        value |-> Some(e.val),
        span |-> Span_concat(start_sp, e.p.last_sp),
        expected_type |-> return_type]))

parse_return(p, return_type, start_sp) ==
    Then(IF return_type = TypeNone THEN Ok(p, None)
         ELSE Then(parse_expression(p), LAMBDA e : Ok(e.p, Some(e.val))),
         LAMBDA value :
    Ok(value.p,
       [b |-> "Return",
        value |-> value.val,
        span |-> Span_concat(start_sp, value.p.last_sp),
        expected_type |-> return_type]))

\* the `else` part of parse_if
else_statements(p, return_type) ==
    Then(accept(p, KeywordTok("Else")), LAMBDA else :
        IF else.val = None THEN Ok(else.p, None)
        ELSE Then(accept(else.p, KeywordTok("If")), LAMBDA elif :
                 IF elif.val # None
                 THEN Then(parse_if(elif.p, return_type, elif.val[1].sp), LAMBDA nested :
                      Ok(nested.p, Some(<<nested.val>>)))
                 ELSE Then(expect(elif.p, SymbolTok("LeftBrace")), LAMBDA elb :
                      Then(block_body(elb.p, return_type, <<>>), LAMBDA eb :
                      Ok(eb.p, Some(eb.val))))))

parse_if(p, return_type, start_sp) ==
    Then(parse_expression(p), LAMBDA condition :
    Then(expect(condition.p, SymbolTok("LeftBrace")), LAMBDA lb :
    Then(block_body(lb.p, return_type, <<>>), LAMBDA if_statements :
    Then(else_statements(if_statements.p, return_type), LAMBDA else_statements_opt :
    Ok(else_statements_opt.p,
       [b |-> "If",
        span |-> Span_concat(start_sp, else_statements_opt.p.last_sp),
        condition |-> condition.val,
        if_statements |-> if_statements.val,
        else_statements |-> else_statements_opt.val])))))

parse_while(p, return_type, start_sp) ==
    Then(parse_expression(p), LAMBDA condition :
    Then(expect(condition.p, SymbolTok("LeftBrace")), LAMBDA lb :
    Then(block_body(lb.p, return_type, <<>>), LAMBDA body :
    Ok(body.p,
       [b |-> "While",
        span |-> Span_concat(start_sp, body.p.last_sp),
        condition |-> condition.val,
        statements |-> body.val]))))

BlockStatementChain ==
    <<Try(KeywordTok("Var")), Try(KeywordTok("If")), Try(KeywordTok("While")),
      Try(KeywordTok("For")), Try(KeywordTok("Return"))>>

parse_block_statement(p, return_type) ==
    Then(accept_chain(p, BlockStatementChain, 1), LAMBDA c :
        IF c.val.idx = 1 THEN parse_var_decl(c.p, c.val.stok.sp)
        ELSE IF c.val.idx = 2 THEN parse_if(c.p, return_type, c.val.stok.sp)
        ELSE IF c.val.idx = 3 THEN parse_while(c.p, return_type, c.val.stok.sp)
        ELSE IF c.val.idx = 4 THEN parse_forin(c.p, return_type, c.val.stok.sp)
        ELSE IF c.val.idx = 5 THEN parse_return(c.p, return_type, c.val.stok.sp)
        ELSE Then(parse_expression(c.p), LAMBDA expr :
             Then(accept(expr.p, SymbolTok("Equal")), LAMBDA eq :
                 IF eq.val # None
                 THEN Then(parse_expression(eq.p), LAMBDA value :
                      Ok(value.p, [b |-> "VarAssignment", target |-> expr.val,
                                   value |-> value.val]))
                 ELSE Ok(eq.p, [b |-> "Expression", expr |-> expr.val]))))

(***************************************************************************)
(* Parser: top-level statements                                            *)
(***************************************************************************)
parse_package(p, start_sp) ==
    Then(expect_any(p, AnyIdentifier), LAMBDA name_token :
    Ok(name_token.p,
       [s |-> "Package", span |-> Span_concat(start_sp, name_token.val.sp),
        name |-> name_token.val.tok.s]))

parse_import(p, start_sp) ==
    Then(expect_any(p, StringLiteral(<<>>)), LAMBDA path_token :
    Ok(path_token.p,
       [s |-> "Import", span |-> Span_concat(start_sp, path_token.val.sp),
        path |-> path_token.val.tok.s]))

\* the `name : type ,` lists of parse_func_decl (close = RightParenthesis)
\* and parse_struct_decl (close = RightBrace)
RECURSIVE name_type_list(_, _, _)
name_type_list(p, close, items) ==
    Then(accept(p, SymbolTok(close)), LAMBDA a :
        IF a.val # None THEN Ok(a.p, items)
        ELSE Then(expect_any(a.p, AnyIdentifier), LAMBDA name_token :
             Then(expect(name_token.p, SymbolTok("Colon")), LAMBDA col :
             Then(parse_type(col.p), LAMBDA type :
             Then(comma_rule(type.p, close), LAMBDA c :
             name_type_list(c.p, close,
                 Append(items,
                     [span |-> Span_concat(name_token.val.sp, type.p.last_sp),
                      name |-> name_token.val.tok.s,
                      type |-> type.val,
                      default_value |-> None])))))))

parse_struct_decl(p, start_sp) ==
    Then(expect_any(p, AnyIdentifier), LAMBDA name_token :
    Then(expect(name_token.p, SymbolTok("LeftBrace")), LAMBDA lb :
    Then(name_type_list(lb.p, "RightBrace", <<>>), LAMBDA fields :
    Ok(fields.p,
       [s |-> "StructDecl",
        span |-> Span_concat(start_sp, fields.p.last_sp),
        name |-> name_token.val.tok.s,
        fields |-> fields.val]))))

\* parse_func_decl up to and including the `{` of the body: the locals of
\* the activation
parse_func_decl_head(p, start_sp) ==
    Then(expect_any(p, AnyIdentifier), LAMBDA name_token :
    Then(expect(name_token.p, SymbolTok("LeftParenthesis")), LAMBDA lp :
    Then(name_type_list(lp.p, "RightParenthesis", <<>>), LAMBDA params :
    Then(accept(params.p, SymbolTok("Return")), LAMBDA arrow :
    Then(IF arrow.val # None THEN parse_type(arrow.p) ELSE Ok(arrow.p, TypeNone),
         LAMBDA return_type :
    Then(expect(return_type.p, SymbolTok("LeftBrace")), LAMBDA lb :
    Ok(lb.p,
       [start_sp |-> start_sp,
        name |-> name_token.val.tok.s,
        return_type |-> return_type.val,
        parameters |-> params.val,
        statements |-> <<>>])))))))

StatementChain ==
    <<Try(KeywordTok("Import")), Try(KeywordTok("Package")), Try(KeywordTok("Func")),
      Try(KeywordTok("Struct"))>>

\* faulty variant: a token that starts no statement is passed over in silence
parse_statement_recovers(p) ==
    Then(accept_chain(p, StatementChain, 1), LAMBDA c :
        IF c.val.idx = 1 THEN parse_import(c.p, c.val.stok.sp)
        ELSE IF c.val.idx = 2 THEN parse_package(c.p, c.val.stok.sp)
        ELSE IF c.val.idx = 4 THEN parse_struct_decl(c.p, c.val.stok.sp)
        ELSE Ok(c.p, [s |-> "Unknown"]))

\* parse_statement for every leading token but `func`
parse_statement(p) ==
    Then(accept_chain(p, StatementChain, 1), LAMBDA c :
        IF c.val.idx = 1 THEN parse_import(c.p, c.val.stok.sp)
        ELSE IF c.val.idx = 2 THEN parse_package(c.p, c.val.stok.sp)
        ELSE IF c.val.idx = 4 THEN parse_struct_decl(c.p, c.val.stok.sp)
        ELSE Err(c.p, UnexpectedToken(c.p.current_token.tok), c.p.current_token.sp))

(***************************************************************************)
(* Source texts of the Reader specification                                *)
(***************************************************************************)
MaxSymLen == 3
MaxStrBody == 4
MaxCalls == 4
MaxCharBody == 3

RECURSIVE SeqsUpTo(_, _)
SeqsUpTo(S, n) ==
    IF n = 0 THEN {<<>>}
    ELSE LET shorter == SeqsUpTo(S, n - 1)
         IN  shorter \cup {Append(s, c) : s \in {x \in shorter : Len(x) = n - 1}, c \in S}

SymAlphabet == {":", "=", "+", "-", "!", "<", ">", "a", " ", NL}
StrAlphabet == {"a", "b", "n", "t", BSLASH, DQUOTE, NL}

SymSources == SeqsUpTo(SymAlphabet, MaxSymLen) \ {<<>>}
StrSources ==
    {<<DQUOTE>> \o body \o tail :
        body \in SeqsUpTo(StrAlphabet, MaxStrBody), tail \in {<<>>, <<DQUOTE>>}}
\* an opening `'` and what follows it
CharAlphabet == {"a", "n", BSLASH, SQUOTE, NL}
CharSources ==
    {<<SQUOTE>> \o body : body \in SeqsUpTo(CharAlphabet, MaxCharBody)}
\* short texts over digits, the point and a letter, and the runs of digits
\* around i64::MAX
MaxNumLen == 4
NumAlphabet == {"0", "9", ".", "a"}
NumSources == SeqsUpTo(NumAlphabet, MaxNumLen) \ {<<>>}
I64_MAX_PLUS_ONE == SubSeq(I64_MAX_DIGITS, 1, 18) \o <<"8">>
WideNumbers ==
    {I64_MAX_DIGITS, I64_MAX_PLUS_ONE, <<"0", "0">> \o I64_MAX_DIGITS,
     <<"0">> \o I64_MAX_PLUS_ONE, SubSeq(I64_MAX_DIGITS, 1, 18),
     <<"1">> \o [i \in 1..19 |-> "0"], <<"9">> \o [i \in 1..18 |-> "0"],
     <<"1">> \o [i \in 1..18 |-> "9"], <<"2", "1", "4", "7", "4", "8", "3", "6", "4", "8">>}
WideSources ==
    WideNumbers \cup {n \o <<".", "9">> : n \in WideNumbers}
        \cup {n \o <<" ", "a">> : n \in WideNumbers}
LexSources ==
    SymSources \cup StrSources \cup CharSources \cup NumSources \cup WideSources

ParserNew ==
    /\ last_sp = nil_span
    /\ current_token = SToken(EOF, nil_span)
    /\ just_skept_newline = FALSE
    /\ ast = <<>>
    /\ frame = <<>>

InitLex ==
    /\ \E src \in LexSources : reader = Reader_new(src, FileName)
    /\ ParserNew
    /\ pc = "lex"
    /\ result = [kind |-> "None"]
    /\ ghost = [calls |-> 0, before |-> reader, tok_sp |-> nil_span,
                prev |-> result]

LexNextToken ==
    /\ pc = "lex"
    /\ ghost.calls < MaxCalls
    /\ LET res == Reader_next_token(reader) IN
        /\ result' = [x \in DOMAIN res \ {"r"} |-> res[x]]
        /\ reader' = res.r
        /\ pc' = IF res.kind = "Panic" THEN "aborted" ELSE "lex"
    /\ ghost' = [ghost EXCEPT !.calls = @ + 1, !.before = reader, !.prev = result]
    /\ UNCHANGED <<last_sp, current_token, just_skept_newline, ast, frame>>

NextLex == LexNextToken

SpecLex == InitLex /\ [][NextLex]_vars

(***************************************************************************)
(* parse(): the loop over the top-level statements, with the activation of *)
(* parse_func_decl for a top-level `func` entered and left step by step    *)
(***************************************************************************)
P ==
    [reader |-> reader, last_sp |-> last_sp, current_token |-> current_token,
     just_skept_newline |-> just_skept_newline, g |-> ghost]

SetParser(p) ==
    /\ reader' = p.reader
    /\ last_sp' = p.last_sp
    /\ current_token' = p.current_token
    /\ just_skept_newline' = p.just_skept_newline
    /\ ghost' = p.g

\* the call failed: parse() returns the error (or the process aborts)
Failed(res) ==
    /\ SetParser(res.p)
    /\ pc' = IF res.kind = "Panic" THEN "aborted" ELSE "done"
    /\ result' = IF res.kind = "Panic" THEN [kind |-> "Panic"]
                 ELSE [kind |-> "Err", err |-> res.err]
    /\ frame' = <<>>
    /\ UNCHANGED ast

\* try!(self.next_token()) at the head of parse()
ParseBegin ==
    /\ pc = "new"
    /\ \E res \in {next_token(P)} :
       IF res.kind # "Ok" THEN Failed(res)
       ELSE /\ SetParser(res.p)
            /\ pc' = "top"
            /\ UNCHANGED <<ast, frame, result>>

\* the loop of parse() ends at EOF: Ok(&self.ast)
ParseEnd ==
    /\ pc = "top"
    /\ current_token.tok = EOF
    /\ pc' = "done"
    /\ result' = [kind |-> "Ok", ast |-> ast]
    /\ UNCHANGED <<reader, last_sp, current_token, just_skept_newline, ast, frame, ghost>>

\* one iteration of the loop of parse() on a statement that is no `func`
ParseStatement ==
    /\ pc = "top"
    /\ current_token.tok # EOF
    /\ current_token.tok # KeywordTok("Func")
    /\ \E res \in {parse_statement(P)} :
       IF res.kind # "Ok" THEN Failed(res)
       ELSE /\ SetParser(res.p)
            /\ ast' = Append(ast, res.val)
            /\ UNCHANGED <<pc, frame, result>>

\* parse_statement accepts `func`; parse_func_decl runs up to the body
FuncDeclBegin ==
    /\ pc = "top"
    /\ current_token.tok = KeywordTok("Func")
    /\ \E res \in {Then(accept_chain(P, StatementChain, 1), LAMBDA c :
                          parse_func_decl_head(c.p, c.val.stok.sp))} :
       IF res.kind # "Ok" THEN Failed(res)
       ELSE /\ SetParser(res.p)
            /\ frame' = res.val
            /\ pc' = "body"
            /\ UNCHANGED <<ast, result>>

\* one iteration of the body loop of parse_func_decl
FuncBodyStatement ==
    /\ pc = "body"
    /\ current_token.tok # SymbolTok("RightBrace")
    /\ \E res \in {Then(accept(P, SymbolTok("RightBrace")), LAMBDA a :
                          parse_block_statement(a.p, frame.return_type))} :
       IF res.kind # "Ok" THEN Failed(res)
       ELSE /\ SetParser(res.p)
            /\ frame' = [frame EXCEPT !.statements = Append(@, res.val)]
            /\ UNCHANGED <<ast, pc, result>>

\* the body loop ends on `}`: the FuncDecl statement is pushed
FuncDeclEnd ==
    /\ pc = "body"
    /\ current_token.tok = SymbolTok("RightBrace")
    /\ \E res \in {accept(P, SymbolTok("RightBrace"))} :
       IF res.kind # "Ok" THEN Failed(res)
       ELSE /\ SetParser(res.p)
            /\ ast' = Append(ast,
                   [s |-> "FuncDecl",
                    span |-> Span_concat(frame.start_sp, res.p.last_sp),
                    name |-> frame.name,
                    return_type |-> frame.return_type,
                    parameters |-> frame.parameters,
                    statements |-> frame.statements])
            /\ frame' = <<>>
            /\ pc' = "top"
            /\ UNCHANGED result

(***************************************************************************)
(* Source texts of the parser specification                                *)
(***************************************************************************)
MaxPostfix == 3

RECURSIVE Cat(_)
Cat(seqs) == IF seqs = <<>> THEN <<>> ELSE Head(seqs) \o Cat(Tail(seqs))

\* words joined by a separator
RECURSIVE Join(_, _)
Join(words, sep) ==
    IF Len(words) <= 1 THEN Cat(words)
    ELSE Head(words) \o sep \o Join(Tail(words), sep)

FuncOpen == <<"f","u","n","c"," ","f","(",")","{">>
InFunc(body) == FuncOpen \o body \o <<"}">>

OperandTriples == {<<"1", "2", "3">>, <<"a", "b", "c">>}
BinaryOpText ==
    [Addition |-> <<"+">>, Substraction |-> <<"-">>, Multiplication |-> <<"*">>,
     Division |-> <<"/">>, Modulo |-> <<"%">>, Equality |-> <<"=", "=">>,
     Inequality |-> <<"!", "=">>, Concatenation |-> <<"<", ">">>]
BinaryOpNames == DOMAIN BinaryOpText

\* `x op1 y op2 z` as the only statement of a function body
TwoOpSource(o, op1, op2) ==
    InFunc(Join(<<<<o[1]>>, BinaryOpText[op1], <<o[2]>>, BinaryOpText[op2], <<o[3]>>>>,
                <<" ">>))
TwoOpSources ==
    {TwoOpSource(o, op1, op2) :
        o \in OperandTriples, op1 \in BinaryOpNames, op2 \in BinaryOpNames}

\* a primary followed by a chain of postfix forms
PostfixForms == {<<".", "b">>, <<"(", "c", ")">>, <<"[", "0", "]">>}
PostfixChains == SeqsUpTo(PostfixForms, MaxPostfix) \ {<<>>}
PostfixSource(chain) == InFunc(<<"a">> \o Cat(chain))
PostfixSources == {PostfixSource(chain) : chain \in PostfixChains}

\* two var declarations in a function body, separated by sep
VarDeclX == <<"v","a","r"," ","x",":"," ","i","n","t"," ","="," ","1">>
VarDeclY == <<"v","a","r"," ","y",":"," ","i","n","t"," ","="," ","2">>
VarSeparators == {<<" ">>, <<NL>>, <<NL, NL>>, <<" ", NL, " ">>}
VarDeclSource(sep) == InFunc(VarDeclX \o sep \o VarDeclY)
VarDeclSources == {VarDeclSource(sep) : sep \in VarSeparators}

\* one program per kind of composite node, as words
Programs ==
    {<<<<"i","m","p","o","r","t">>, <<DQUOTE,"a",DQUOTE>>>>,
     <<<<"p","a","c","k","a","g","e">>, <<"p">>>>,
     <<<<"s","t","r","u","c","t">>, <<"P">>, <<"{">>, <<"x">>, <<":">>, <<"i","n","t">>, <<",">>, <<"y">>, <<":">>, <<"i","n","t">>, <<"}">>>>,
     <<<<"f","u","n","c">>, <<"f">>, <<"(">>, <<"a">>, <<":">>, <<"i","n","t">>, <<",">>, <<"b">>, <<":">>, <<"&">>, <<"P">>, <<")">>, <<"-",">">>, <<"i","n","t">>, <<"{">>, <<"r","e","t","u","r","n">>, <<"a">>, <<"}">>>>,
     <<<<"f","u","n","c">>, <<"f">>, <<"(">>, <<")">>, <<"{">>, <<"v","a","r">>, <<"x">>, <<":">>, <<"i","n","t">>, <<"=">>, <<"1">>, <<"}">>>>,
     <<<<"f","u","n","c">>, <<"f">>, <<"(">>, <<")">>, <<"{">>, <<"v","a","r">>, <<"x">>, <<":">>, <<"[">>, <<"]">>, <<"i","n","t">>, <<"}">>>>,
     <<<<"f","u","n","c">>, <<"f">>, <<"(">>, <<")">>, <<"{">>, <<"i","f">>, <<"a">>, <<"{">>, <<"b">>, <<"}">>, <<"e","l","s","e">>, <<"{">>, <<"c">>, <<"}">>, <<"}">>>>,
     <<<<"f","u","n","c">>, <<"f">>, <<"(">>, <<")">>, <<"{">>, <<"i","f">>, <<"a">>, <<"{">>, <<"b">>, <<"}">>, <<"e","l","s","e">>, <<"i","f">>, <<"c">>, <<"{">>, <<"d">>, <<"}">>, <<"}">>>>,
     <<<<"f","u","n","c">>, <<"f">>, <<"(">>, <<")">>, <<"{">>, <<"w","h","i","l","e">>, <<"a">>, <<"{">>, <<"b">>, <<"}">>, <<"}">>>>,
     <<<<"f","u","n","c">>, <<"f">>, <<"(">>, <<")">>, <<"{">>, <<"f","o","r">>, <<"i">>, <<"i","n">>, <<"a">>, <<"{">>, <<"b">>, <<"}">>, <<"}">>>>,
     <<<<"f","u","n","c">>, <<"f">>, <<"(">>, <<")">>, <<"{">>, <<"r","e","t","u","r","n">>, <<"}">>>>,
     <<<<"f","u","n","c">>, <<"f">>, <<"(">>, <<")">>, <<"{">>, <<"x">>, <<"=">>, <<"a">>, <<":",":">>, <<"b">>, <<"}">>>>,
     <<<<"f","u","n","c">>, <<"f">>, <<"(">>, <<")">>, <<"{">>, <<"x">>, <<"=">>, <<"#">>, <<"a">>, <<"}">>>>,
     <<<<"f","u","n","c">>, <<"f">>, <<"(">>, <<")">>, <<"{">>, <<"x">>, <<"=">>, <<"[">>, <<"1">>, <<",">>, <<"2">>, <<"]">>, <<"}">>>>,
     <<<<"f","u","n","c">>, <<"f">>, <<"(">>, <<")">>, <<"{">>, <<"x">>, <<"=">>, <<"{">>, <<"1">>, <<":">>, <<"2">>, <<"}">>, <<"}">>>>,
     <<<<"f","u","n","c">>, <<"f">>, <<"(">>, <<")">>, <<"{">>, <<"g">>, <<"(">>, <<"1">>, <<")">>, <<"}">>>>,
     <<<<"f","u","n","c">>, <<"f">>, <<"(">>, <<")">>, <<"{">>, <<"a">>, <<"[">>, <<"0">>, <<"]">>, <<"}">>>>,
     <<<<"f","u","n","c">>, <<"f">>, <<"(">>, <<")">>, <<"{">>, <<"a">>, <<".">>, <<"b">>, <<"}">>>>,
     <<<<"f","u","n","c">>, <<"f">>, <<"(">>, <<")">>, <<"{">>, <<"x">>, <<"=">>, <<"1">>, <<"+">>, <<"2">>, <<"}">>>>,
     <<<<"p","a","c","k","a","g","e">>, <<"p">>, <<"f","u","n","c">>, <<"f">>, <<"(">>, <<")">>, <<"{">>, <<"}">>, <<"s","t","r","u","c","t">>, <<"Q">>, <<"{">>, <<"}">>>>}
ProgramSeparators == {<<" ">>, <<NL>>}
ProgramSources == {Join(w, sep) : w \in Programs, sep \in ProgramSeparators}

\* `x = {k1: 2, k2: 3}` as the only statement of a function body
MapKeys == {"1", "2", "a"}
MapSource(k1, k2) ==
    InFunc(<<"x", " ", "=", " ", "{", k1, ":", " ", "2", ",", " ", k2, ":", " ", "3", "}">>)
MapSources == {MapSource(k1, k2) : k1 \in MapKeys, k2 \in MapKeys}

\* `u a op 1` and `u a<postfix form> op 1` as the only statement of a body
UnaryOpText ==
    [Count |-> "#", Reference |-> "&", MutReference |-> "@", Dereference |-> "*"]
UnaryOpNames == DOMAIN UnaryOpText
UnaryChains == {<<>>} \cup {<<form>> : form \in PostfixForms}
UnarySource(u, chain, op) ==
    InFunc(<<UnaryOpText[u], "a">> \o Cat(chain) \o <<" ">> \o BinaryOpText[op]
               \o <<" ", "1">>)
UnarySources ==
    {UnarySource(u, chain, op) :
        u \in UnaryOpNames, chain \in UnaryChains, op \in BinaryOpNames}

\* `x = [1, 2, .., n]` with its commas in order or disturbed in one place
MaxArrayLen == 3
Digits == <<"1", "2", "3", "4", "5", "6", "7", "8", "9">>
ArrayVariants(n) ==
    {[kind |-> "plain", at |-> 0]}
        \cup (IF n > 0 THEN {[kind |-> "trailing", at |-> n]} ELSE {})
        \cup {[kind |-> "missing", at |-> k] : k \in 1..(n - 1)}
        \cup {[kind |-> "doubled", at |-> k] : k \in 1..n}
ArraySeparator(i, n, v) ==
    IF v.kind = "doubled" /\ v.at = i
    THEN IF i < n THEN <<",", ",", " ">> ELSE <<",", ",">>
    ELSE IF v.kind = "missing" /\ v.at = i THEN <<" ">>
    ELSE IF i < n THEN <<",", " ">>
    ELSE IF v.kind = "trailing" THEN <<",">>
    ELSE <<>>
ArrayText(n, v) ==
    <<"[">> \o Cat([i \in 1..n |-> <<Digits[i]>> \o ArraySeparator(i, n, v)]) \o <<"]">>
ArraySource(n, v) == InFunc(<<"x", " ", "=", " ">> \o ArrayText(n, v))
ArraySources ==
    UNION {{ArraySource(n, v) : v \in ArrayVariants(n)} : n \in 0..MaxArrayLen}

\* `return` or `return 1` inside up to MaxNest nested blocks of a function
\* with or without a declared return type
MaxNest == 2
ReturnWrappers == {"if", "else", "while", "for"}
ReturnChains == SeqsUpTo(ReturnWrappers, MaxNest)
ReturnTypeText ==
    [none |-> <<>>, int |-> <<"-", ">", " ", "i", "n", "t", " ">>,
     P |-> <<"-", ">", " ", "P", " ">>]
ReturnForms == {<<>>, <<" ", "1">>}
RECURSIVE Wrapped(_, _)
Wrapped(chain, inner) ==
    IF chain = <<>> THEN inner
    ELSE LET body == <<"{", " ">> \o Wrapped(Tail(chain), inner) \o <<" ", "}">> IN
         CASE Head(chain) = "if" -> <<"i", "f", " ", "a", " ">> \o body
           [] Head(chain) = "else" ->
                  <<"i", "f", " ", "a", " ", "{", "}", " ", "e", "l", "s", "e", " ">> \o body
           [] Head(chain) = "while" -> <<"w", "h", "i", "l", "e", " ", "a", " ">> \o body
           [] Head(chain) = "for" -> <<"f", "o", "r", " ", "i", " ", "i", "n", " ", "a", " ">> \o body
ReturnSource(ty, chain, form) ==
    <<"f", "u", "n", "c", " ", "f", "(", ")", " ">> \o ReturnTypeText[ty] \o <<"{">>
        \o Wrapped(chain, <<"r", "e", "t", "u", "r", "n">> \o form) \o <<"}">>
ReturnSources ==
    {ReturnSource(ty, chain, form) :
        ty \in DOMAIN ReturnTypeText, chain \in ReturnChains, form \in ReturnForms}

\* up to MaxFragments statements, one per line, in a function body: each is
\* well formed, or misses a comma, or has no value, or holds an unknown escape
MaxFragments == 2
FragmentText ==
    [ok |-> <<"x", " ", "=", " ", "1">>,
     expected |-> <<"x", " ", "=", " ", "[", "1", " ", "2", "]">>,
     unexpected |-> <<"x", " ", "=", " ", ",">>,
     lexer |-> <<"x", " ", "=", " ", DQUOTE, BSLASH, "t", DQUOTE>>]
FragmentKinds == DOMAIN FragmentText
FragmentSeqs == SeqsUpTo(FragmentKinds, MaxFragments) \ {<<>>}
FragmentSource(kinds) ==
    InFunc(Join([i \in 1..Len(kinds) |-> FragmentText[kinds[i]]], <<NL>>))
FragmentSources == {FragmentSource(kinds) : kinds \in FragmentSeqs}

\* an operand, a line break, and a line that starts with a binary operator
\* or a postfix opener
BinaryOpToken ==
    [Addition |-> "Plus", Substraction |-> "Minus", Multiplication |-> "Star",
     Division |-> "Over", Modulo |-> "Modulo", Equality |-> "EqualEqual",
     Inequality |-> "NotEqual", Concatenation |-> "Concat"]
BreakTails ==
    {[text |-> BinaryOpText[op] \o <<" ", "b">>, tok |-> SymbolTok(BinaryOpToken[op])] :
        op \in BinaryOpNames}
      \cup {[text |-> <<".", "b">>, tok |-> SymbolTok("Dot")],
            [text |-> <<"(", "b", ")">>, tok |-> SymbolTok("LeftParenthesis")],
            [text |-> <<"[", "0", "]">>, tok |-> SymbolTok("LeftBracket")]}
BreakSource(chain, tail) == InFunc(<<"a">> \o Cat(chain) \o <<NL>> \o tail.text)
BreakSources == {BreakSource(chain, tail) : chain \in UnaryChains, tail \in BreakTails}

\* a line break directly after a binary operator, an opener or a comma
OpenTexts ==
    {<<"a", "(", NL, "c", ")">>, <<"a", "(", "c", ",", NL, "c", ")">>,
     <<"a", "[", NL, "0", "]">>, <<"a", ".", NL, "b">>}
OperatorBreakSource(op) == InFunc(<<"a", " ">> \o BinaryOpText[op] \o <<NL, "b">>)
OpenSource(text) == InFunc(text)
ContinuedSources ==
    {OperatorBreakSource(op) : op \in BinaryOpNames}
        \cup {OpenSource(text) : text \in OpenTexts}

\* `var x: T` for the type terms T nested up to MaxTypeDepth deep
MaxTypeDepth == 1
ScalarNames ==
    {<<"i","n","t">>, <<"b","o","o","l">>, <<"c","h","a","r">>, <<"s","t","r","i","n","g">>}
NestedPaths == {<<<<"i","n","t">>>>, <<<<"P">>>>, <<<<"a">>, <<"i","n","t">>>>}
FlatPaths ==
    {<<name>> : name \in ScalarNames}
        \cup {<<<<"i","n","t">>, <<"a">>>>, <<<<"a">>, <<"b">>, <<"c","h","a","r">>>>}
PathTerm(parts) == [k |-> "Path", parts |-> parts]
RECURSIVE TypeTerms(_)
TypeTerms(d) ==
    IF d = 0 THEN {PathTerm(parts) : parts \in NestedPaths}
    ELSE LET inner == TypeTerms(d - 1) IN
         inner \cup {[k |-> w, of |-> t] :
                        w \in {"Reference", "MutReference", "Array"}, t \in inner}
               \cup {[k |-> "Map", key |-> a, value |-> b] : a \in inner, b \in inner}
AllTypeTerms == TypeTerms(MaxTypeDepth) \cup {PathTerm(parts) : parts \in FlatPaths}
RECURSIVE TypeText(_)
TypeText(t) ==
    CASE t.k = "Path" -> Join(t.parts, <<":", ":">>)
      [] t.k = "Reference" -> <<"&">> \o TypeText(t.of)
      [] t.k = "MutReference" -> <<"@">> \o TypeText(t.of)
      [] t.k = "Array" -> <<"[", "]">> \o TypeText(t.of)
      [] t.k = "Map" -> <<"[">> \o TypeText(t.key) \o <<"]">> \o TypeText(t.value)
TypeSource(t) == InFunc(<<"v", "a", "r", " ", "x", ":", " ">> \o TypeText(t))
TypeSources == {TypeSource(t) : t \in AllTypeTerms}

\* `1 op1 a<postfix form> op2 2` as the only statement of a function body
PostfixOperandSource(op1, form, op2) ==
    InFunc(<<"1", " ">> \o BinaryOpText[op1] \o <<" ", "a">> \o form \o <<" ">>
               \o BinaryOpText[op2] \o <<" ", "2">>)
PostfixOperandSources ==
    {PostfixOperandSource(op1, form, op2) :
        op1 \in BinaryOpNames, form \in PostfixForms, op2 \in BinaryOpNames}

\* a keyword where an expression starts: as a statement of a body or after
\* `x = `, alone or followed by `P{}`
KeywordText ==
    [Import |-> <<"i","m","p","o","r","t">>, Package |-> <<"p","a","c","k","a","g","e">>,
     Func |-> <<"f","u","n","c">>, Var |-> <<"v","a","r">>, If |-> <<"i","f">>,
     Else |-> <<"e","l","s","e">>, While |-> <<"w","h","i","l","e">>,
     Struct |-> <<"s","t","r","u","c","t">>, Return |-> <<"r","e","t","u","r","n">>,
     For |-> <<"f","o","r">>, In |-> <<"i","n">>]
StatementKeywords == {"Import", "Package", "Func", "Struct", "Else", "In"}
KeywordPrefixes == {<<>>, <<"x", " ", "=", " ">>}
KeywordTails == {<<>>, <<" ", "P", "{", "}">>}
KeywordsAfter(prefix) == IF prefix = <<>> THEN StatementKeywords ELSE DOMAIN KeywordText
KeywordSource(prefix, kw, tail) == InFunc(prefix \o KeywordText[kw] \o tail)
KeywordSources ==
    UNION {{KeywordSource(prefix, kw, tail) :
                kw \in KeywordsAfter(prefix), tail \in KeywordTails} :
           prefix \in KeywordPrefixes}

\* `package p` after up to MaxLeading newline characters
MaxLeading == 2
LeadingSource(n) ==
    [i \in 1..n |-> NL] \o <<"p","a","c","k","a","g","e"," ","p">>
LeadingSources == {LeadingSource(n) : n \in 0..MaxLeading}

\* every text that ends somewhere inside one declaration: its braces,
\* brackets and parentheses may be left open at the end of input
FuncProgramA ==
    <<"f", "u", "n", "c", " ", "f", "(", "a", ":", " ", "i", "n", "t", ",",
      " ", "b", ":", " ", "&", "P", ")", " ", "-", ">", " ", "[", "i", "n",
      "t", "]", "P", " ", "{", NL, "r", "e", "t", "u", "r", "n", " ", "a",
      ".", "b", "(", "c", ",", " ", "1", ")", "[", "0", "]", " ", "+", " ",
      "[", "1", ",", " ", "2", ",", "]", NL, "}">>
FuncProgramB ==
    <<"f", "u", "n", "c", " ", "f", "(", ")", "{", "i", "f", " ", "a", " ",
      "{", "b", "}", " ", "e", "l", "s", "e", " ", "i", "f", " ", "c", " ",
      "{", "d", "}", " ", "e", "l", "s", "e", " ", "{", "e", "}", NL, "w",
      "h", "i", "l", "e", " ", "a", " ", "{", "f", "o", "r", " ", "i", " ",
      "i", "n", " ", "a", " ", "{", "x", " ", "=", " ", "{", "1", ":", " ",
      DQUOTE, "s", DQUOTE, ",", "}", "}", "}", NL, "v", "a", "r", " ", "y",
      ":", " ", "[", "]", "i", "n", "t", " ", "=", " ", "#", "a", "}">>
StructProgram ==
    <<"s", "t", "r", "u", "c", "t", " ", "P", " ", "{", "x", ":", " ", "i",
      "n", "t", ",", " ", "y", ":", " ", "a", ":", ":", "b", "}">>
CutPrograms == {FuncProgramA, FuncProgramB, StructProgram}
Prefix(text, n) == SubSeq(text, 1, n)
PrefixSources == UNION {{Prefix(text, n) : n \in 1..Len(text)} : text \in CutPrograms}

ParseSources ==
    TwoOpSources \cup PostfixSources \cup VarDeclSources \cup ProgramSources
        \cup MapSources \cup UnarySources \cup ArraySources \cup ReturnSources
        \cup FragmentSources \cup BreakSources \cup ContinuedSources
        \cup TypeSources \cup PostfixOperandSources \cup KeywordSources
        \cup LeadingSources \cup PrefixSources

Init ==
    /\ \E src \in ParseSources : reader = Reader_new(src, FileName)
    /\ ParserNew
    /\ pc = "new"
    /\ result = [kind |-> "None"]
    /\ ghost = [calls |-> 0, before |-> reader, tok_sp |-> nil_span]

Next ==
    \/ ParseBegin
    \/ ParseEnd
    \/ ParseStatement
    \/ FuncDeclBegin
    \/ FuncBodyStatement
    \/ FuncDeclEnd

Spec == Init /\ [][Next]_vars

\* parse() is one sequential call: it keeps running until it returns
SpecLive == Spec /\ WF_vars(Next)

(***************************************************************************)
(* accept and expect called on a primed parser, any shape at any lookahead  *)
(***************************************************************************)
MaxTokens == 3
MaxTokCalls == 5

\* up to MaxTokens words, each an identifier, a number, a comma or a newline
TokWords == {"a", "1", ",", NL}
TokSources == {Join([i \in 1..Len(w) |-> <<w[i]>>], <<" ">>) : w \in SeqsUpTo(TokWords, MaxTokens)}
TokShapes ==
    {Identifier(<<"a">>), IntegerLiteral(1), SymbolTok("Comma"), NewLine, EOF}

\* the parser as a call finds it
Snapshot(p) ==
    [reader |-> p.reader, last_sp |-> p.last_sp, current_token |-> p.current_token,
     just_skept_newline |-> p.just_skept_newline, calls |-> p.g.calls]

InitTok ==
    /\ \E src \in TokSources : reader = Reader_new(src, FileName)
    /\ ParserNew
    /\ pc = "unprimed"
    /\ result = [kind |-> "None"]
    /\ ghost = [calls |-> 0, before |-> reader, tok_sp |-> nil_span,
                pre |-> [reader |-> reader, last_sp |-> nil_span,
                         current_token |-> SToken(EOF, nil_span),
                         just_skept_newline |-> FALSE, calls |-> 0]]

\* the call returned: its value or error is kept, with the shape requested
Returned(op, mtoken, res) ==
    /\ SetParser(res.p)
    /\ result' = [op |-> op, requested |-> mtoken, kind |-> res.kind,
                  val |-> IF res.kind = "Ok" THEN res.val ELSE None,
                  err |-> IF res.kind = "Err" THEN res.err ELSE None]
    /\ pc' = CASE res.kind = "Ok" -> "primed"
               [] res.kind = "Err" -> "done"
               [] OTHER -> "aborted"
    /\ UNCHANGED <<ast, frame>>

\* the first token is read into the lookahead, as parse() does
TokBegin ==
    /\ pc = "unprimed"
    /\ \E res \in {next_token([P EXCEPT !.g.pre = Snapshot(P)])} :
           Returned("next_token", EOF, res)

TokAccept ==
    /\ pc = "primed"
    /\ ghost.calls < MaxTokCalls
    /\ \E mtoken \in TokShapes :
           \E res \in {accept([P EXCEPT !.g.pre = Snapshot(P)], mtoken)} :
               Returned("accept", mtoken, res)

TokExpect ==
    /\ pc = "primed"
    /\ ghost.calls < MaxTokCalls
    /\ \E token \in TokShapes :
           \E res \in {expect([P EXCEPT !.g.pre = Snapshot(P)], token)} :
               Returned("expect", token, res)

NextTok ==
    \/ TokBegin
    \/ TokAccept
    \/ TokExpect

SpecTok == InitTok /\ [][NextTok]_vars

(***************************************************************************)
(* Properties of the Reader                                                *)
(***************************************************************************)
\* index in src of current_char (Len + 1 once the input is exhausted)
CharIndex(r) == IF r.current_char = NoChar THEN Len(r.src) + 1 ELSE r.itr

\* the reader as positioned at the first character of the token of the last call
TokenStart == skip_whitespace(ghost.before)

PlainStrChars == {"a", "b", "n", "t"}
IsPlain(s) == \A i \in 1..Len(s) : s[i] \in PlainStrChars

\* C7: a string literal `"` pre `\"` post `"` (pre, post without quote or
\* backslash) lexes to the StringLiteral pre ++ `"` ++ post: the escaped quote
\* is kept as a character and does not end the literal or raise a lex error.
C7_EscapedQuoteRecognized ==
    (ghost.calls = 1 /\ reader.src[1] = DQUOTE) =>
        \A i \in 2..Len(reader.src) - 2 :
            LET src == reader.src
                pre == SubSeq(src, 2, i - 1)
                post == SubSeq(src, i + 2, Len(src) - 1)
            IN  (/\ src[i] = BSLASH /\ src[i + 1] = DQUOTE /\ src[Len(src)] = DQUOTE
                 /\ IsPlain(pre) /\ IsPlain(post))
                => /\ result.kind = "Ok"
                   /\ result.stok.tok = StringLiteral(pre \o <<DQUOTE>> \o post)

\* a prefix of a string body made of plain characters and `\n` escapes only
RECURSIVE PlainOrNewlineEscapes(_)
PlainOrNewlineEscapes(s) ==
    IF s = <<>> THEN TRUE
    ELSE IF Head(s) = BSLASH
    THEN Len(s) >= 2 /\ s[2] = "n" /\ PlainOrNewlineEscapes(SubSeq(s, 3, Len(s)))
    ELSE Head(s) # DQUOTE /\ PlainOrNewlineEscapes(Tail(s))

\* C8: `"a\nb"` lexes to StringLiteral a, newline, b; a literal in which a
\* backslash is followed by a character other than `n` or `"` is a lex error;
\* a literal with no closing quote before the end of input is a lex error.
C8_StringEscapes ==
    (ghost.calls = 1 /\ reader.src[1] = DQUOTE) =>
        LET src == reader.src
            body == Tail(src)
        IN  /\ src = <<DQUOTE, "a", BSLASH, "n", "b", DQUOTE>> =>
                /\ result.kind = "Ok"
                /\ result.stok.tok = StringLiteral(<<"a", NL, "b">>)
            /\ (\E i \in 1..Len(body) - 1 :
                    /\ body[i] = BSLASH
                    /\ body[i + 1] \notin {"n", DQUOTE}
                    /\ PlainOrNewlineEscapes(SubSeq(body, 1, i - 1)))
               => result.kind = "Err"
            /\ (\A i \in 1..Len(body) :
                    body[i] = DQUOTE => (i > 1 /\ body[i - 1] = BSLASH))
               => result.kind = "Err"

C8_Witness ==
    /\ ghost.calls = 1
    /\ reader.src = <<DQUOTE, "a", BSLASH, "n", "b", DQUOTE>>
    /\ result.kind = "Ok"
    /\ Len(result.stok.tok.s) = 3

\* the two-character symbol table: first character, second character,
\* token of the pair, token of the first character alone ("" = lex error)
SymbolTable ==
    {<<":", ":", "ColonColon", "Colon">>, <<"=", "=", "EqualEqual", "Equal">>,
     <<"+", "+", "PlusPlus", "Plus">>, <<"-", ">", "Return", "Minus">>,
     <<"!", "=", "NotEqual", "">>, <<"<", "=", "LessOrEqual", "Less">>,
     <<"<", ">", "Concat", "Less">>, <<">", "=", "MoreOrEqual", "More">>}
TableFirsts == {row[1] : row \in SymbolTable}

\* C9: when a first character of the table is the last character of the
\* input, next_token returns the single-character token (a lex error for `!`)
\* and leaves the Reader at the end of input, so the next call returns EOF.
C9_TableFirstAtEndOfInput ==
    (/\ ghost.calls >= 1
     /\ TokenStart.current_char \in TableFirsts
     /\ peek_char(TokenStart) = NoChar)
    => \A row \in SymbolTable :
           row[1] = TokenStart.current_char =>
               /\ result.kind # "Panic"
               /\ reader.current_char = NoChar
               /\ IF row[4] = "" THEN result.kind = "Err"
                  ELSE result.kind = "Ok" /\ result.stok.tok = SymbolTok(row[4])

\* C10: a first character of the table followed by its listed second character
\* gives the two-character token and consumes two characters; followed by any
\* other character it gives the single-character token and consumes one
\* character, the other character becoming the current one; `!` followed by
\* a character other than `=` is a lex error.
C10_TwoCharacterSymbols ==
    (/\ ghost.calls >= 1
     /\ TokenStart.current_char \in TableFirsts
     /\ peek_char(TokenStart) # NoChar)
    => LET c == TokenStart.current_char
           d == peek_char(TokenStart)
           rows == {row \in SymbolTable : row[1] = c}
       IN  IF \E row \in rows : row[2] = d
           THEN \A row \in rows :
                    row[2] = d =>
                        /\ result.kind = "Ok"
                        /\ result.stok.tok = SymbolTok(row[3])
                        /\ CharIndex(reader) = CharIndex(TokenStart) + 2
           ELSE \A row \in rows :
                    IF row[4] = "" THEN result.kind = "Err"
                    ELSE /\ result.kind = "Ok"
                         /\ result.stok.tok = SymbolTok(row[4])
                         /\ CharIndex(reader) = CharIndex(TokenStart) + 1
                         /\ reader.current_char = d

C10_Witness ==
    /\ ghost.calls = 2
    /\ TokenStart.current_char = "<"
    /\ peek_char(TokenStart) = ">"
    /\ result.kind = "Ok"
    /\ result.stok.tok = SymbolTok("Concat")

\* (row, col) of a is not after (row, col) of b
NotAfter(arow, acol, brow, bcol) == arow < brow \/ (arow = brow /\ acol <= bcol)

IsEOFResult(res) == res.kind = "Ok" /\ res.stok.tok = EOF

\* C11: once next_token() has returned EOF, every further call returns
\* Ok(EOF) again, with a span whose start and end are not before those of the
\* previous one, and the position of the Reader does not change.
C11_EndOfStreamIsStable ==
    [][IsEOFResult(result) =>
           /\ IsEOFResult(result')
           /\ NotAfter(result.stok.sp.srow, result.stok.sp.scol,
                       result'.stok.sp.srow, result'.stok.sp.scol)
           /\ NotAfter(result.stok.sp.erow, result.stok.sp.ecol,
                       result'.stok.sp.erow, result'.stok.sp.ecol)
           /\ reader'.itr = reader.itr
           /\ reader'.current_char = reader.current_char
           /\ reader'.current_row = reader.current_row
           /\ reader'.current_col = reader.current_col
      ]_vars

C11_Witness ==
    /\ ghost.calls >= 3
    /\ IsEOFResult(ghost.prev)
    /\ IsEOFResult(result)
    /\ result.stok.sp = ghost.prev.stok.sp
    /\ Len(reader.src) >= 2

\* the character of src at index i, NoChar beyond the end
CharAt(src, i) == IF i \in 1..Len(src) THEN src[i] ELSE NoChar

\* at index i of src stands a character literal `'c'` (c not a backslash) or `'\c'`
IsCharLiteralAt(src, i) ==
    /\ CharAt(src, i) = SQUOTE
    /\ \/ /\ CharAt(src, i + 1) \notin {NoChar, BSLASH}
          /\ CharAt(src, i + 2) = SQUOTE
       \/ /\ CharAt(src, i + 1) = BSLASH
          /\ CharAt(src, i + 2) # NoChar
          /\ CharAt(src, i + 3) = SQUOTE

\* C16: every call of next_token returns a span-tagged token or a lex error
\* and never aborts; a character literal that deviates from `'c'` or `'\c'`,
\* the input ending after the opening quote, after the backslash or before
\* the closing quote included, returns a lex error.
C16_NextTokenNeverAborts ==
    /\ pc # "aborted"
    /\ result.kind \in {"None", "Ok", "Err"}
    /\ (/\ ghost.calls >= 1
        /\ TokenStart.current_char = SQUOTE
        /\ ~IsCharLiteralAt(reader.src, CharIndex(TokenStart)))
       => result.kind = "Err"

\* C17: character-literal escaping is backslash-passthrough only: `'\n'`
\* lexes to CharLiteral of the letter n; for every character c, `'\c'` lexes
\* to CharLiteral(c) and `'c'` (c not a backslash) lexes to CharLiteral(c),
\* each consuming exactly the characters up to and including the closing quote.
C17_CharEscapePassthrough ==
    (/\ ghost.calls >= 1
     /\ TokenStart.current_char = SQUOTE
     /\ IsCharLiteralAt(reader.src, CharIndex(TokenStart)))
    => LET src == reader.src
           i == CharIndex(TokenStart)
       IN  /\ result.kind = "Ok"
           /\ src[i + 1] = BSLASH =>
                  /\ result.stok.tok = CharLiteral(src[i + 2])
                  /\ CharIndex(reader) = i + 4
           /\ src[i + 1] # BSLASH =>
                  /\ result.stok.tok = CharLiteral(src[i + 1])
                  /\ CharIndex(reader) = i + 3
           /\ (src[i + 1] = BSLASH /\ src[i + 2] = "n") =>
                  result.stok.tok = CharLiteral("n")

C17_Witness ==
    /\ ghost.calls = 1
    /\ reader.src = <<SQUOTE, BSLASH, "n", SQUOTE>>
    /\ result.kind = "Ok"
    /\ result.stok.tok = CharLiteral("n")
    /\ reader.current_char = NoChar

\* the number of raw newline characters among the first k characters of src
NewlinesBefore(src, k) == Cardinality({i \in 1..(k - 1) : src[i] = NL})

\* C18: after any sequence of next_token calls the current row is 1 plus the
\* number of raw newline characters consumed so far, and the start row of
\* each returned token is 1 plus the number of raw newline characters that
\* precede its first character, whether a newline was a NewLine symbol or lay
\* inside a literal.
C18_RowBookkeeping ==
    pc = "lex" =>
        /\ reader.current_row = 1 + NewlinesBefore(reader.src, CharIndex(reader))
        /\ (ghost.calls >= 1 /\ result.kind = "Ok") =>
               result.stok.sp.srow
                   = 1 + NewlinesBefore(reader.src, CharIndex(TokenStart))

\* the index behind the maximal run of digits with at most one point that
\* starts at index i of src, and whether a second point stopped the run
RECURSIVE NumberRun(_, _, _)
NumberRun(src, i, points) ==
    IF is_numeric(CharAt(src, i)) THEN NumberRun(src, i + 1, points)
    ELSE IF CharAt(src, i) = "." /\ points = 0 THEN NumberRun(src, i + 1, 1)
    ELSE [end |-> i, points |-> points, second |-> CharAt(src, i) = "."]

RECURSIVE Shape(_)
ShapeSeq(es) == [i \in 1..Len(es) |-> Shape(es[i])]
Shape(x) ==
    CASE x.e = "IntegerLiteral" -> <<"IntegerLiteral", x.i>>
      [] x.e = "Variable" -> <<"Variable", EqKeyPath(x.path)>>
      [] x.e = "BinaryOp" -> <<"BinaryOp", x.op, Shape(x.lhs), Shape(x.rhs)>>
      [] x.e = "Field" -> <<"Field", Shape(x.obj), x.name.ident>>
      [] x.e = "FuncCall" -> <<"FuncCall", Shape(x.func), ShapeSeq(x.args)>>
      [] x.e = "Index" -> <<"Index", Shape(x.obj), ShapeSeq(x.index)>>
      [] x.e = "UnaryOp" -> <<"UnaryOp", x.op, Shape(x.operand)>>
      [] x.e = "Array" -> <<"Array", ShapeSeq(x.items)>>
      [] OTHER -> <<x.e>>

\* the shape of the one-character operand c: a digit or an identifier
OperandShape(c) ==
    IF is_numeric(c) THEN <<"IntegerLiteral", DigitVal(c)>>
    ELSE <<"Variable", <<<<c>>>>>>

\* the binding powers as documented: equality 1, additive 2, multiplicative 3
DocumentedPrecedence ==
    [Equality |-> 1, Inequality |-> 1,
     Addition |-> 2, Substraction |-> 2, Concatenation |-> 2,
     Multiplication |-> 3, Division |-> 3, Modulo |-> 3]

\* the body of the function holds exactly one block statement, the expression
\* of the given shape, and the lookahead is the `}` of the body
WholeBodyIs(shape) ==
    /\ Len(frame.statements) = 1
    /\ frame.statements[1].b = "Expression"
    /\ Shape(frame.statements[1].expr) = shape
    /\ current_token.tok = SymbolTok("RightBrace")

\* C1: for precedence(op1) > precedence(op2), `x op1 y op2 z` on one line is
\* consumed entirely by one parse_expression call and folds as
\* (x op1 y) op2 z; `1 * 2 + 3` gives Addition(Multiplication(1, 2), 3).
C1_HigherThenLowerPrecedence ==
    \A o \in OperandTriples, op1 \in BinaryOpNames, op2 \in BinaryOpNames :
        (/\ reader.src = TwoOpSource(o, op1, op2)
         /\ DocumentedPrecedence[op1] > DocumentedPrecedence[op2])
        => /\ pc = "done" => result.kind = "Ok"
           /\ (pc = "body" /\ frame.statements # <<>>) =>
                  WholeBodyIs(<<"BinaryOp", op2,
                                <<"BinaryOp", op1, OperandShape(o[1]), OperandShape(o[2])>>,
                                OperandShape(o[3])>>)

\* C2: for precedence(op1) < precedence(op2) under the documented table,
\* `x op1 y op2 z` folds as x op1 (y op2 z) and every token is consumed;
\* `1 + 2 * 3` gives Addition(1, Multiplication(2, 3)).
C2_LowerThenHigherPrecedence ==
    \A o \in OperandTriples, op1 \in BinaryOpNames, op2 \in BinaryOpNames :
        (/\ reader.src = TwoOpSource(o, op1, op2)
         /\ DocumentedPrecedence[op1] < DocumentedPrecedence[op2])
        => /\ pc = "done" => result.kind = "Ok"
           /\ (pc = "body" /\ frame.statements # <<>>) =>
                  WholeBodyIs(<<"BinaryOp", op1, OperandShape(o[1]),
                                <<"BinaryOp", op2, OperandShape(o[2]), OperandShape(o[3])>>>>)

C2_Witness ==
    /\ reader.src = TwoOpSource(<<"1", "2", "3">>, "Addition", "Multiplication")
    /\ pc = "body"
    /\ Len(frame.statements) = 1
    /\ frame.statements[1].expr.e = "BinaryOp"
    /\ frame.statements[1].expr.op = "Addition"
    /\ frame.statements[1].expr.rhs.e = "BinaryOp"
    /\ frame.statements[1].expr.rhs.op = "Multiplication"

\* the shape of a postfix form applied to the expression of shape e
WrapShape(e, form) ==
    CASE form[1] = "." -> <<"Field", e, <<form[2]>>>>
      [] form[1] = "(" -> <<"FuncCall", e, <<OperandShape(form[2])>>>>
      [] form[1] = "[" -> <<"Index", e, <<OperandShape(form[2])>>>>

\* each later postfix form wraps the expression built from all earlier ones
RECURSIVE PostfixShape(_, _)
PostfixShape(e, chain) ==
    IF chain = <<>> THEN e
    ELSE PostfixShape(WrapShape(e, Head(chain)), Tail(chain))

\* C3: a chain of postfix forms `.name`, `(args)`, `[index]` applied to a
\* primary binds left-associatively: each later form wraps the expression
\* built from all earlier ones; `a.b(c)[0]` gives
\* Index(FuncCall(Field(Variable a, b), [Variable c]), Some(0)).
C3_PostfixLeftAssociative ==
    \A chain \in PostfixChains :
        reader.src = PostfixSource(chain)
        => /\ pc = "done" => result.kind = "Ok"
           /\ (pc = "body" /\ frame.statements # <<>>) =>
                  WholeBodyIs(PostfixShape(OperandShape("a"), chain))

C3_Witness ==
    /\ reader.src = PostfixSource(<<<<".", "b">>, <<"(", "c", ")">>, <<"[", "0", "]">>>>)
    /\ pc = "body"
    /\ Len(frame.statements) = 1
    /\ frame.statements[1].expr.e = "Index"
    /\ Len(frame.statements[1].expr.index) = 1
    /\ frame.statements[1].expr.obj.e = "FuncCall"
    /\ frame.statements[1].expr.obj.func.e = "Field"
    /\ frame.statements[1].expr.obj.func.obj.e = "Variable"

\* C4: `var x: int = 1 var y: int = 2` in a function body makes parse()
\* return a parse error: the `var` after the complete initializer `1` is not
\* accepted as the start of a new block statement.
C4_SpaceSeparatedVarDeclsRejected ==
    reader.src = VarDeclSource(<<" ">>)
    => /\ pc = "done" => result.kind = "Err"
       /\ pc = "body" => Len(frame.statements) <= 1

\* the block statement `var name: int = value`
IsIntVarDecl(st, name, value) ==
    /\ st.b = "VarDecl"
    /\ st.name = name
    /\ st.var_type = TypeScalar("Int")
    /\ Len(st.value) = 1
    /\ Shape(st.value[1]) = <<"IntegerLiteral", value>>

\* a prefix of the two declarations `var x: int = 1`, `var y: int = 2`
AreVarDeclsXY(statements) ==
    /\ Len(statements) <= 2
    /\ Len(statements) >= 1 => IsIntVarDecl(statements[1], <<"x">>, 1)
    /\ Len(statements) >= 2 => IsIntVarDecl(statements[2], <<"y">>, 2)

NewLineSeparators == {sep \in VarSeparators : \E i \in 1..Len(sep) : sep[i] = NL}

\* C5: `var x: int = 1` NEWLINE `var y: int = 2` in a function body parses to
\* exactly two VarDecl block statements in source order, with values
\* IntegerLiteral 1 and IntegerLiteral 2; the NewLine ends the first
\* initializer and is never the lookahead a grammar rule is entered with.
C5_NewLineSeparatedVarDecls ==
    \A sep \in NewLineSeparators :
        reader.src = VarDeclSource(sep)
        => /\ pc \in {"top", "body"} => current_token.tok # NewLine
           /\ pc = "body" => AreVarDeclsXY(frame.statements)
           /\ pc = "done" =>
                  /\ result.kind = "Ok"
                  /\ Len(result.ast) = 1
                  /\ result.ast[1].s = "FuncDecl"
                  /\ Len(result.ast[1].statements) = 2
                  /\ AreVarDeclsXY(result.ast[1].statements)

C5_Witness ==
    /\ reader.src = VarDeclSource(<<NL>>)
    /\ pc = "done"
    /\ result.kind = "Ok"
    /\ Len(result.ast[1].statements) = 2
    /\ result.ast[1].statements[2].name = <<"y">>

\* the block statements that carry a span of their own
SpannedBlockStatements == {"VarDecl", "If", "While", "ForIn", "Return"}

\* C6: a composite node's span is Span::concat(span of its first token, span
\* of its last token), whether or not NewLine tokens follow the last token.
\* Stated for the statement a step of parse() or of the body loop of
\* parse_func_decl has just built: its first token is the lookahead the step
\* began with (the `func` token for a FuncDecl), its last token the most
\* recently consumed token that is not a NewLine.
C6_StatementSpans ==
    [][/\ (/\ pc = "body" /\ pc' = "body"
           /\ Len(frame'.statements) = Len(frame.statements) + 1
           /\ frame'.statements[Len(frame'.statements)].b \in SpannedBlockStatements)
          => frame'.statements[Len(frame'.statements)].span
                 = Span_concat(current_token.sp, ghost'.tok_sp)
       /\ (pc = "top" /\ pc' = "top" /\ Len(ast') = Len(ast) + 1)
          => ast'[Len(ast')].span = Span_concat(current_token.sp, ghost'.tok_sp)
       /\ (pc = "body" /\ pc' = "top")
          => ast'[Len(ast')].span = Span_concat(frame.start_sp, ghost'.tok_sp)
      ]_vars

\* C12: in a map literal a key written more than once has a single entry,
\* holding the value of its last occurrence; the number of entries is the
\* number of syntactically distinct keys.
C12_DuplicateMapKeys ==
    \A k1 \in MapKeys, k2 \in MapKeys :
        reader.src = MapSource(k1, k2)
        => /\ pc = "done" => result.kind = "Ok"
           /\ (pc = "body" /\ frame.statements # <<>>) =>
                  /\ frame.statements[1].b = "VarAssignment"
                  /\ frame.statements[1].value.e = "Map"
                  /\ LET map == frame.statements[1].value.map IN
                         /\ Len(map) = Cardinality({k1, k2})
                         /\ k1 = k2 =>
                                /\ Shape(map[1].key) = OperandShape(k1)
                                /\ Shape(map[1].value) = <<"IntegerLiteral", 3>>

\* C13: a unary prefix operator binds tighter than any binary operator: for
\* a prefix operator u, a primary p followed by postfix forms and a binary
\* operator op, `u p op q` is BinaryOp(op, UnaryOp(u, p), q); `#a.b + 1` is
\* Addition(Count(Field(a, b)), 1) and `#a + 1` is Addition(Count(a), 1).
C13_UnaryBindsTighter ==
    \A u \in UnaryOpNames, chain \in UnaryChains, op \in BinaryOpNames :
        reader.src = UnarySource(u, chain, op)
        => /\ pc = "done" => result.kind = "Ok"
           /\ (pc = "body" /\ frame.statements # <<>>) =>
                  WholeBodyIs(<<"BinaryOp", op,
                                <<"UnaryOp", u, PostfixShape(OperandShape("a"), chain)>>,
                                OperandShape("1")>>)

\* the value assigned by the only statement of the body is the array 1, .., n
AssignsArray(n) ==
    /\ Len(frame.statements) = 1
    /\ frame.statements[1].b = "VarAssignment"
    /\ Shape(frame.statements[1].value)
           = <<"Array", [i \in 1..n |-> <<"IntegerLiteral", i>>]>>
    /\ current_token.tok = SymbolTok("RightBrace")

\* C14: array literal comma rule: `[1, 2, 3]` and `[1, 2, 3,]` parse to an
\* Array with the same elements in order (one trailing comma before `]` is
\* optional); two elements not separated by a comma give
\* ExpectedGotToken(Comma, ..); an empty element between commas gives
\* UnexpectedToken(Comma).
C14_ArrayCommaRule ==
    \A n \in 0..MaxArrayLen :
        \A v \in ArrayVariants(n) :
            reader.src = ArraySource(n, v)
            => /\ pc # "aborted"
               /\ v.kind \in {"plain", "trailing"} =>
                      /\ pc = "done" => result.kind = "Ok"
                      /\ (pc = "body" /\ frame.statements # <<>>) => AssignsArray(n)
               /\ v.kind = "missing" =>
                      /\ pc = "body" => frame.statements = <<>>
                      /\ pc = "done" =>
                             /\ result.kind = "Err"
                             /\ result.err.kind
                                    = ExpectedGotToken(SymbolTok("Comma"),
                                                       IntegerLiteral(v.at + 1))
               /\ v.kind = "doubled" =>
                      /\ pc = "body" => frame.statements = <<>>
                      /\ pc = "done" =>
                             /\ result.kind = "Err"
                             /\ result.err.kind = UnexpectedToken(SymbolTok("Comma"))
C14_Witness ==
    /\ reader.src = ArraySource(3, [kind |-> "trailing", at |-> 3])
    /\ pc = "body"
    /\ AssignsArray(3)

\* the block reached from a block by entering, at each level, its first
\* statement through the named part
RECURSIVE InnerBlock(_, _)
InnerBlock(block, chain) ==
    IF chain = <<>> THEN block
    ELSE LET st == block[1] IN
         InnerBlock(CASE Head(chain) = "if" -> st.if_statements
                      [] Head(chain) = "else" -> st.else_statements[1]
                      [] OTHER -> st.statements,
                    Tail(chain))

\* C15: a `return` at any nesting depth of a function without declared
\* return type parses no expression and has no value; with a declared return
\* type exactly one expression is parsed and stored as the value, and a
\* `return` followed by no expression is a parse error; expected_type is the
\* declared return type of the enclosing function.
C15_ReturnRule ==
    \A ty \in DOMAIN ReturnTypeText, chain \in ReturnChains, form \in ReturnForms :
        reader.src = ReturnSource(ty, chain, form)
        => /\ pc # "aborted"
           /\ pc = "body" => (frame.return_type = TypeNone <=> ty = "none")
           /\ (ty # "none" /\ form = <<>>) =>
                  /\ pc = "body" => frame.statements = <<>>
                  /\ pc = "done" => /\ result.kind = "Err"
                                    /\ result.err.kind.k = "UnexpectedToken"
           /\ (ty = "none" \/ form # <<>>) =>
                  /\ pc = "done" => result.kind = "Ok"
                  /\ (pc = "body" /\ frame.statements # <<>>) =>
                         LET block == InnerBlock(frame.statements, chain) IN
                             /\ block[1].b = "Return"
                             /\ block[1].expected_type = frame.return_type
                             /\ ty = "none" =>
                                    /\ block[1].value = None
                                    /\ form = <<>> => Len(block) = 1
                                    /\ (form # <<>> /\ Len(block) = 1) =>
                                           /\ chain = <<>>
                                           /\ current_token.tok = IntegerLiteral(1)
                                    /\ (form # <<>> /\ Len(block) # 1) =>
                                           /\ Len(block) = 2
                                           /\ block[2].b = "Expression"
                                           /\ Shape(block[2].expr) = OperandShape("1")
                             /\ ty # "none" =>
                                    /\ Len(block) = 1
                                    /\ block[1].value # None
                                    /\ Shape(block[1].value[1]) = OperandShape("1")
C15_Witness ==
    /\ reader.src = ReturnSource("none", <<"while", "else">>, <<" ", "1">>)
    /\ pc = "body"
    /\ frame.statements # <<>>
    /\ InnerBlock(frame.statements, <<"while", "else">>)[1].value = None

\* the Reader after n calls of next_token on r, and whether all of them
\* returned a token
RECURSIVE ReaderAfter(_, _)
ReaderAfter(r, n) ==
    IF n <= 0 THEN [ok |-> TRUE, r |-> r]
    ELSE Let1(Reader_next_token(r), LAMBDA res :
             IF res.kind # "Ok" THEN [ok |-> FALSE, r |-> res.r]
             ELSE ReaderAfter(res.r, n - 1))

\* the position in kinds of the first fragment that is not well formed, 0 if none
FirstBad(kinds) ==
    IF \A i \in 1..Len(kinds) : kinds[i] = "ok" THEN 0
    ELSE CHOOSE i \in 1..Len(kinds) :
             /\ kinds[i] # "ok"
             /\ \A j \in 1..(i - 1) : kinds[j] = "ok"

\* C19: parse() returns Ok(AST) only if no Reader call and no grammar rule
\* reported an error; otherwise it returns the first error in source order (a
\* Reader error as kind Lexer, a grammar miss as UnexpectedToken or
\* ExpectedGotToken), requests no further token after that error and returns
\* no AST.
C19_FailFast ==
    pc = "done" =>
        LET before == ReaderAfter(Reader_new(reader.src, FileName), ghost.calls - 1)
            last == Reader_next_token(ghost.before)
        IN  /\ ghost.calls >= 1
            /\ before.ok
            /\ before.r = ghost.before
            /\ last.r = reader
            /\ result.kind \in {"Ok", "Err"}
            /\ result.kind = "Ok" =>
                   /\ last.kind = "Ok"
                   /\ last.stok = current_token
                   /\ current_token.tok = EOF
                   /\ result.ast = ast
            /\ result.kind = "Err" =>
                   /\ "ast" \notin DOMAIN result
                   /\ result.err.kind.k \in {"Lexer", "UnexpectedToken", "ExpectedGotToken"}
                   /\ result.err.kind.k = "Lexer" =>
                          /\ last.kind = "Err"
                          /\ result.err = [kind |-> LexerError(last.msg), span |-> last.span]
                   /\ result.err.kind.k # "Lexer" =>
                          /\ last.kind = "Ok"
                          /\ last.stok = current_token
                          /\ result.err.span = current_token.sp
                          /\ result.err.kind.k = "UnexpectedToken" =>
                                 result.err.kind.tok = current_token.tok
                          /\ result.err.kind.k = "ExpectedGotToken" =>
                                 result.err.kind.got = current_token.tok
            /\ \A kinds \in FragmentSeqs :
                   reader.src = FragmentSource(kinds) =>
                       LET k == FirstBad(kinds) IN
                           IF k = 0
                           THEN /\ result.kind = "Ok"
                                /\ Len(result.ast[1].statements) = Len(kinds)
                           ELSE /\ result.kind = "Err"
                                /\ result.err.span.srow = k
                                /\ result.err.kind.k
                                       = CASE kinds[k] = "expected" -> "ExpectedGotToken"
                                           [] kinds[k] = "unexpected" -> "UnexpectedToken"
                                           [] kinds[k] = "lexer" -> "Lexer"

C19_Witness ==
    /\ pc = "done"
    /\ reader.src = FragmentSource(<<"ok", "lexer">>)
    /\ result.kind = "Err"
    /\ result.err.kind.k = "Lexer"
    /\ reader.current_char = "t"

\* the first token that is no NewLine read from r, the Reader after it and
\* the number of calls made
RECURSIVE AfterNewLines(_, _)
AfterNewLines(r, n) ==
    Let1(Reader_next_token(r), LAMBDA res :
        IF res.kind = "Ok" /\ res.stok.tok = NewLine
        THEN AfterNewLines(res.r, n + 1)
        ELSE [res |-> res, calls |-> n + 1])

\* the parser is as the last call found it
SameAsBefore ==
    /\ reader = ghost.pre.reader
    /\ ghost.calls = ghost.pre.calls
    /\ current_token = ghost.pre.current_token
    /\ last_sp = ghost.pre.last_sp
    /\ just_skept_newline = ghost.pre.just_skept_newline

\* C20: accept on a lookahead that does not match returns None, requests
\* nothing from the Reader and leaves the lookahead, last_sp and the newline
\* flag unchanged; expect on such a miss returns ExpectedGotToken(requested
\* shape, lookahead token) with the span of the lookahead; on a match both
\* return the matched token and advance the lookahead by one token plus the
\* following run of NewLine tokens.
C20_AcceptExpect ==
    (pc \in {"primed", "done"} /\ result.op \in {"accept", "expect"}) =>
        LET pre == ghost.pre
            requested == result.requested
        IN  IF pre.current_token.tok # requested
            THEN /\ result.op = "accept" =>
                        /\ result.kind = "Ok"
                        /\ result.val = None
                        /\ SameAsBefore
                 /\ result.op = "expect" =>
                        /\ result.kind = "Err"
                        /\ result.err.kind = ExpectedGotToken(requested, pre.current_token.tok)
                        /\ result.err.span = pre.current_token.sp
                        /\ reader = pre.reader
            ELSE LET next == AfterNewLines(pre.reader, 0) IN
                     /\ reader = next.res.r
                     /\ ghost.calls = pre.calls + next.calls
                     /\ next.res.kind = "Ok" =>
                            /\ result.kind = "Ok"
                            /\ result.val = IF result.op = "accept"
                                            THEN Some(pre.current_token)
                                            ELSE pre.current_token
                            /\ current_token = next.res.stok

C20_Witness ==
    /\ pc = "primed"
    /\ result.op = "expect"
    /\ result.kind = "Ok"
    /\ result.val.tok = IntegerLiteral(1)
    /\ ghost.calls = ghost.pre.calls + 2
    /\ current_token.tok = Identifier(<<"a">>)

\* the expression of text without its line break
OpenShape(text) ==
    LET a == OperandShape("a")
        c == OperandShape("c")
    IN  CASE text[2] = "(" /\ Len(text) = 5 -> <<"FuncCall", a, <<c>>>>
          [] text[2] = "(" /\ Len(text) # 5 -> <<"FuncCall", a, <<c, c>>>>
          [] text[2] = "[" -> <<"Index", a, <<OperandShape("0")>>>>
          [] text[2] = "." -> <<"Field", a, <<"b">>>>

\* C21: a line break ends an expression: an operand followed by a NewLine
\* and a line starting with a binary operator or a postfix opener is parsed
\* as just the operand, the operator being left as the lookahead; a NewLine
\* directly after a binary operator, an opening bracket or parenthesis or a
\* comma does not end the expression.
C21_LineBreakEndsExpression ==
    /\ \A chain \in UnaryChains, tail \in BreakTails :
           (reader.src = BreakSource(chain, tail) /\ pc = "body"
                /\ Len(frame.statements) >= 1)
           => /\ frame.statements[1].b = "Expression"
              /\ Shape(frame.statements[1].expr) = PostfixShape(OperandShape("a"), chain)
              /\ Len(frame.statements) = 1 => current_token.tok = tail.tok
    /\ \A chain \in UnaryChains, tail \in BreakTails :
           (reader.src = BreakSource(chain, tail) /\ pc = "done" /\ result.kind = "Err")
           => result.err.kind = UnexpectedToken(tail.tok)
    /\ \A op \in BinaryOpNames :
           reader.src = OperatorBreakSource(op)
           => /\ pc = "done" => result.kind = "Ok"
              /\ (pc = "body" /\ frame.statements # <<>>) =>
                     WholeBodyIs(<<"BinaryOp", op, OperandShape("a"), OperandShape("b")>>)
    /\ \A text \in OpenTexts :
           reader.src = OpenSource(text)
           => /\ pc = "done" => result.kind = "Ok"
              /\ (pc = "body" /\ frame.statements # <<>>) => WholeBodyIs(OpenShape(text))

C21_Witness ==
    /\ reader.src = BreakSource(<<>>, [text |-> <<"+", " ", "b">>, tok |-> SymbolTok("Plus")])
    /\ pc = "body"
    /\ Len(frame.statements) = 1
    /\ just_skept_newline
    /\ current_token.tok = SymbolTok("Plus")

\* a Type without the spans of its paths
RECURSIVE TypeShape(_)
TypeShape(t) ==
    CASE t.ty = "Struct" -> <<"Struct", EqKeyPath(t.path)>>
      [] t.ty \in {"Reference", "MutReference", "Array"} -> <<t.ty, TypeShape(t.inner)>>
      [] t.ty = "Map" -> <<"Map", TypeShape(t.key), TypeShape(t.value)>>
      [] OTHER -> <<t.ty>>

\* the Type the type grammar gives to a term
RECURSIVE TermShape(_)
TermShape(t) ==
    CASE t.k = "Path" ->
             IF t.parts = <<<<"i","n","t">>>> THEN <<"Int">>
             ELSE IF t.parts = <<<<"b","o","o","l">>>> THEN <<"Bool">>
             ELSE IF t.parts = <<<<"c","h","a","r">>>> THEN <<"Char">>
             ELSE IF t.parts = <<<<"s","t","r","i","n","g">>>> THEN <<"String">>
             ELSE <<"Struct", t.parts>>
      [] t.k = "Map" -> <<"Map", TermShape(t.key), TermShape(t.value)>>
      [] OTHER -> <<t.k, TermShape(t.of)>>

\* C22: parse_type maps `&T` to Reference(T), `@T` to MutReference(T), `[]T`
\* to Array(T) and `[K]V` to Map(K, V), recursively; a single-segment path
\* int, bool, char or string is the scalar type of that name, every other
\* path, `a::int` included, is Struct(path); the result is never Type::None
\* or Type::Func.
C22_TypeGrammar ==
    \A t \in AllTypeTerms :
        reader.src = TypeSource(t)
        => /\ pc = "done" => result.kind = "Ok"
           /\ (pc = "body" /\ frame.statements # <<>>) =>
                  /\ Len(frame.statements) = 1
                  /\ frame.statements[1].b = "VarDecl"
                  /\ TypeShape(frame.statements[1].var_type) = TermShape(t)
                  /\ frame.statements[1].var_type.ty \notin {"None", "Func"}
                  /\ current_token.tok = SymbolTok("RightBrace")

C22_Witness ==
    /\ reader.src = TypeSource([k |-> "Map", key |-> PathTerm(<<<<"a">>, <<"i","n","t">>>>),
                                value |-> PathTerm(<<<<"i","n","t">>>>)])
    /\ pc = "body"
    /\ Len(frame.statements) = 1
    /\ frame.statements[1].var_type.ty = "Map"
    /\ frame.statements[1].var_type.key.ty = "Struct"
    /\ frame.statements[1].var_type.value.ty = "Int"

\* C23: binary operators of equal precedence fold left to right within one
\* parse_expression call: for op1, op2 of the same precedence level,
\* `x op1 y op2 z` is consumed entirely and gives
\* BinaryOp(op2, BinaryOp(op1, x, y), z).
C23_EqualPrecedenceFoldsLeft ==
    \A o \in OperandTriples, op1 \in BinaryOpNames, op2 \in BinaryOpNames :
        (/\ reader.src = TwoOpSource(o, op1, op2)
         /\ DocumentedPrecedence[op1] = DocumentedPrecedence[op2])
        => /\ pc = "done" => result.kind = "Ok"
           /\ (pc = "body" /\ frame.statements # <<>>) =>
                  WholeBodyIs(<<"BinaryOp", op2,
                                <<"BinaryOp", op1, OperandShape(o[1]), OperandShape(o[2])>>,
                                OperandShape(o[3])>>)

\* C24: a postfix form applied to the right operand of a binary operator
\* leaves the minimum precedence of that operand in force: in
\* `1 op1 a<form> op2 2` with precedence(op2) <= precedence(op1) the form
\* attaches to `a` only and op2 is not absorbed into the right operand of
\* op1; `1 * a.b + 2` never gives Multiplication(1, Addition(Field(a, b), 2)).
C24_PostfixKeepsMinimumPrecedence ==
    \A op1 \in BinaryOpNames, form \in PostfixForms, op2 \in BinaryOpNames :
        (/\ reader.src = PostfixOperandSource(op1, form, op2)
         /\ DocumentedPrecedence[op2] <= DocumentedPrecedence[op1]
         /\ pc = "body"
         /\ frame.statements # <<>>)
        => LET operand == WrapShape(OperandShape("a"), form) IN
               /\ frame.statements[1].b = "Expression"
               /\ Shape(frame.statements[1].expr)
                      # <<"BinaryOp", op1, OperandShape("1"),
                          <<"BinaryOp", op2, operand, OperandShape("2")>>>>

\* C25: in primary-expression position (the start of an expression or of an
\* expression statement of a block) a keyword token starts no grammar rule:
\* the parse fails with UnexpectedToken carrying that keyword and its span,
\* and the keyword is not consumed as the start of a struct initializer.
C25_KeywordStartsNoExpression ==
    \A prefix \in KeywordPrefixes, tail \in KeywordTails :
        \A kw \in KeywordsAfter(prefix) :
            reader.src = KeywordSource(prefix, kw, tail)
            => /\ pc = "body" =>
                      /\ frame.statements = <<>>
                      /\ current_token.tok \in {KeywordTok(kw), Identifier(<<"x">>)}
               /\ pc = "done" =>
                      /\ result.kind = "Err"
                      /\ result.err.kind = UnexpectedToken(KeywordTok(kw))
                      /\ result.err.span
                             = Span(1, Len(FuncOpen) + Len(prefix) + 1,
                                    1, Len(FuncOpen) + Len(prefix) + 1 + Len(KeywordText[kw]),
                                    FileName)

\* C26: from the first grammar-rule dispatch of parse() onward the lookahead
\* a rule inspects is never the NewLine symbol, also for a source text that
\* begins with newline characters; NewLine is never the token of an
\* UnexpectedToken or ExpectedGotToken error.
C26_LookaheadNeverNewLine ==
    /\ pc \in {"top", "body"} => current_token.tok # NewLine
    /\ (pc = "done" /\ result.kind = "Err") =>
           /\ result.err.kind.k = "UnexpectedToken" => result.err.kind.tok # NewLine
           /\ result.err.kind.k = "ExpectedGotToken" => result.err.kind.got # NewLine

\* each of the first n calls of next_token from r on consumes at least one
\* character unless the Reader is at the end of the input
RECURSIVE CallsConsume(_, _)
CallsConsume(r, n) ==
    n <= 0 \/ Let1(Reader_next_token(r), LAMBDA res :
                  /\ r.current_char = NoChar \/ CharIndex(res.r) > CharIndex(r)
                  /\ res.kind = "Ok" => CallsConsume(res.r, n - 1))

\* C28: on every finite source text on which no Reader call aborts parse()
\* terminates with an AST or an error: each next_token call consumes at
\* least one character unless the Reader is at the end of the input, every
\* iteration of a parser loop consumes at least one token or returns an
\* error, also when the lookahead is the end of input inside an unclosed
\* brace, bracket or parenthesis.
C28_ParseTerminates ==
    /\ <>(pc \in {"done", "aborted"})
    /\ [][(pc \in {"top", "body"} /\ pc' \in {"top", "body"})
              => ghost'.calls > ghost.calls]_vars
    /\ [](pc = "done" =>
              /\ result.kind \in {"Ok", "Err"}
              /\ CallsConsume(Reader_new(reader.src, FileName), ghost.calls)
              /\ \A text \in {FuncProgramA, FuncProgramB} :
                     \A n \in 1..(Len(text) - 1) :
                         reader.src = Prefix(text, n) => result.kind = "Err")

C28_Witness ==
    /\ pc = "done"
    /\ reader.src = Prefix(FuncProgramB, 74)
    /\ result.kind = "Err"
    /\ result.err.kind = UnexpectedToken(EOF)
    /\ current_token.tok = EOF

====
